---- MODULE Spec2Model ----
(***************************************************************************)
(* Schema migration of the Spanner PostgreSQL gorm dialect                 *)
(* (postgresql/migrator.go, postgresql/spanner.go).                        *)
(*                                                                         *)
(* The model has three layers:                                             *)
(*   - the database: the live schema, its information_schema catalog and   *)
(*     the administrative DDL requests it receives;                        *)
(*   - the connection of a migrator with its DDL batch (START BATCH DDL,   *)
(*     RUN BATCH, ABORT BATCH);                                            *)
(*   - spannerPostgresMigrator: autoMigrate and the introspection and      *)
(*     column-migration methods it overrides, driven by the base migrator's *)
(*     loop over the models.                                               *)
(***************************************************************************)
EXTENDS Integers, Sequences, FiniteSets, TLC

VARIABLES
    live,       \* the database: tables, columns, indexes, constraints, options
    conn,       \* per migrator: the DDL batch state of its connection
    cfg,        \* per migrator: SpannerConfig.DisableAutoMigrateBatching
    call,       \* per migrator: the autoMigrate call in progress / just returned
    last,       \* summary of the call that returned most recently
    ncalls,     \* number of autoMigrate calls started so far
    nfaults,    \* number of faults injected so far
    op,         \* the direct call of a migrator method made last, with its result
    handle,     \* the database handle (sql.DB) behind gorm.DB: "open" or "closed"
    bound,      \* per migrator: the ConnPool Dialector.Migrator left it with
    autoAddPrimaryKey,  \* SpannerConfig.AutoAddPrimaryKey
    schemas     \* the schema cache of gorm.DB: per model its parsed schema

vars == <<live, conn, cfg, call, last, ncalls, nfaults, op, handle, bound,
               autoAddPrimaryKey, schemas>>

\* Bound on the number of autoMigrate calls in one behaviour.
MaxCalls == 2

\* Bound on the number of injected faults (failing catalog queries, failing
\* Exec / START BATCH DDL / RUN BATCH round trips) in one behaviour.
MaxFaults == 1

Migrators == {"m1"}

-----------------------------------------------------------------------------
(* Errors.  NoErr is Go's nil error.                                        *)

NoErr == "nil"
ErrUniqueNotSupported == "<UNIQUE> constraint is not supported, create a unique index instead."
ErrAlreadyExists == "already exists"
ErrNotFound == "not found"
ErrNotAConstraint == "is not a constraint"
ErrUnavailable == "unavailable"
ErrBatchActive == "batch already active"
ErrInUse == "table is in use"
ErrNoBatch == "no batch active"
ErrConnPool == "unexpected ConnPool type"
ErrNoPrimaryKey == "table has no primary key"

-----------------------------------------------------------------------------
(* Desired schema: the models handed to AutoMigrate.                        *)

MkField(n, t, pk, uq) == [name |-> n, type |-> t, primaryKey |-> pk, unique |-> uq]
MkIndex(n, cols, uq) == [name |-> n, columns |-> cols, unique |-> uq]

\* gorm naming strategy: uni_<table>_<column>, idx_<table>_<column>, fk_<table>_<field>
UniqueName(t, c) == <<"uni", t, c>>
IndexName(t, c) == <<"idx", t, c>>
FkName(t, f) == <<"fk", t, f>>

ModelNames == {"Singer", "Album", "As", "As2", "Bs", "AsU"}

\* parent = "" when the model has no belongs-to relation; otherwise the model
\* carries the foreign key <table>.<parent>_id -> <parent table>.id.
ModelDef(n) ==
    CASE n = "Singer" ->
           [table |-> "singers",
            fields |-> << MkField("id", "serial", TRUE, FALSE),
                          MkField("deleted_at", "timestamptz", FALSE, FALSE) >>,
            indexes |-> << MkIndex(IndexName("singers", "deleted_at"), <<"deleted_at">>, FALSE) >>,
            parent |-> ""]
      [] n = "Album" ->
           [table |-> "albums",
            fields |-> << MkField("id", "serial", TRUE, FALSE),
                          MkField("singer_id", "int", FALSE, FALSE) >>,
            indexes |-> << >>,
            parent |-> "Singer"]
      [] n = "As" ->
           [table |-> "as",
            fields |-> << MkField("id", "serial", TRUE, FALSE),
                          MkField("sha256", "text", FALSE, FALSE) >>,
            indexes |-> << >>,
            parent |-> ""]
      [] n = "As2" ->
           [table |-> "as",
            fields |-> << MkField("id", "serial", TRUE, FALSE),
                          MkField("sha256", "text", FALSE, FALSE),
                          MkField("size", "int", FALSE, FALSE) >>,
            indexes |-> << MkIndex(IndexName("as", "size"), <<"size">>, FALSE) >>,
            parent |-> ""]
      [] n = "Bs" ->
           [table |-> "bs",
            fields |-> << MkField("id", "serial", TRUE, FALSE),
                          MkField("sha256", "text", FALSE, FALSE) >>,
            indexes |-> << MkIndex(IndexName("bs", "sha256"), <<"sha256">>, TRUE) >>,
            parent |-> ""]
      [] n = "AsU" ->
           [table |-> "as",
            fields |-> << MkField("id", "serial", TRUE, FALSE),
                          MkField("sha256", "text", FALSE, TRUE) >>,
            indexes |-> << >>,
            parent |-> ""]

\* The argument lists AutoMigrate is called with.
ModelLists ==
    { <<"As">>, <<"As", "Bs">>, <<"As2">>, <<"AsU">>,
      <<"Album", "Singer">> }

Tables == {"singers", "albums", "as", "bs"}

-----------------------------------------------------------------------------
(* Sequence helpers.                                                         *)

Range(s) == {s[i] : i \in 1..Len(s)}

RECURSIVE SeqConcat(_)
SeqConcat(ss) == IF ss = << >> THEN << >> ELSE Head(ss) \o SeqConcat(Tail(ss))

Take(s, n) == SubSeq(s, 1, n)

Reverse(s) == [i \in 1..Len(s) |-> s[Len(s) + 1 - i]]

\* The rows of a query result, in the order the database returns them.
RECURSIVE Rows(_)
Rows(S) ==
    IF S = {} THEN << >>
    ELSE LET x == CHOOSE x \in S : TRUE IN << x >> \o Rows(S \ {x})

-----------------------------------------------------------------------------
(* The database.                                                             *)
(*   tables      : names of the existing tables                              *)
(*   columns     : <<table, column>> pairs                                   *)
(*   indexes     : [name, table, columns, unique]                            *)
(*   constraints : [name, table, type, columns, refTable]                    *)
(*   seqKind     : database option default_sequence_kind is set              *)

EmptyDb ==
    [tables |-> {}, columns |-> {}, indexes |-> {}, constraints |-> {},
     seqKind |-> FALSE]

MkConstraint(n, t, ty, cols, ref) ==
    [name |-> n, table |-> t, type |-> ty, columns |-> cols, refTable |-> ref]

PkName(t) == <<"pk", t>>

\* DDL statements.
StmtSetSequenceKind == [op |-> "AlterDatabase"]
StmtCreateTable(t, cols, cons) ==
    [op |-> "CreateTable", table |-> t, columns |-> cols, constraints |-> cons]
StmtCreateIndex(t, idx) ==
    [op |-> "CreateIndex", table |-> t, name |-> idx.name,
     columns |-> idx.columns, unique |-> idx.unique]
StmtAddColumn(t, c) == [op |-> "AddColumn", table |-> t, column |-> c]
StmtAddConstraint(con) == [op |-> "AddConstraint", constraint |-> con]
StmtDropConstraint(t, n) == [op |-> "DropConstraint", table |-> t, name |-> n]
StmtDropIndex(t, n) == [op |-> "DropIndex", table |-> t, name |-> n]
StmtDropTable(t) == [op |-> "DropTable", table |-> t]

DbResult(e, db) == [err |-> e, live |-> db]

ConstraintsOk(db, t, cons) ==
    IF \E c \in cons : c.type = "UNIQUE" THEN ErrUniqueNotSupported
    ELSE IF \E c \in cons : c.type = "FOREIGN KEY" /\ c.refTable \notin db.tables
         THEN ErrNotFound
    ELSE NoErr

\* The effect of one DDL statement on the database.
ApplyStatement(db, s) ==
    CASE s.op = "AlterDatabase" ->
           DbResult(NoErr, [db EXCEPT !.seqKind = TRUE])
      [] s.op = "CreateTable" ->
           IF s.table \in db.tables THEN DbResult(ErrAlreadyExists, db)
           ELSE IF ConstraintsOk(db, s.table, s.constraints) # NoErr
                THEN DbResult(ConstraintsOk(db, s.table, s.constraints), db)
           ELSE DbResult(NoErr,
                  [db EXCEPT !.tables = @ \cup {s.table},
                             !.columns = @ \cup {<<s.table, c>> : c \in Range(s.columns)},
                             !.constraints = @ \cup s.constraints])
      [] s.op = "CreateIndex" ->
           IF s.table \notin db.tables
              \/ \E c \in Range(s.columns) : <<s.table, c>> \notin db.columns
           THEN DbResult(ErrNotFound, db)
           ELSE IF \E i \in db.indexes : i.name = s.name
                THEN DbResult(NoErr, db)             \* IF NOT EXISTS
           ELSE DbResult(NoErr,
                  [db EXCEPT !.indexes = @ \cup
                      {[name |-> s.name, table |-> s.table,
                        columns |-> s.columns, unique |-> s.unique]}])
      [] s.op = "AddColumn" ->
           IF s.table \notin db.tables THEN DbResult(ErrNotFound, db)
           ELSE IF <<s.table, s.column>> \in db.columns
                THEN DbResult(ErrAlreadyExists, db)
           ELSE DbResult(NoErr, [db EXCEPT !.columns = @ \cup {<<s.table, s.column>>}])
      [] s.op = "AddConstraint" ->
           IF s.constraint.table \notin db.tables THEN DbResult(ErrNotFound, db)
           ELSE IF ConstraintsOk(db, s.constraint.table, {s.constraint}) # NoErr
                THEN DbResult(ConstraintsOk(db, s.constraint.table, {s.constraint}), db)
           ELSE IF \E c \in db.constraints :
                      c.table = s.constraint.table /\ c.name = s.constraint.name
                THEN DbResult(ErrAlreadyExists, db)
           ELSE DbResult(NoErr, [db EXCEPT !.constraints = @ \cup {s.constraint}])
      [] s.op = "DropConstraint" ->
           IF \E c \in db.constraints : c.table = s.table /\ c.name = s.name
           THEN DbResult(NoErr,
                  [db EXCEPT !.constraints =
                      {c \in @ : ~(c.table = s.table /\ c.name = s.name)}])
           ELSE DbResult(ErrNotAConstraint, db)
      [] s.op = "DropIndex" ->
           IF \E i \in db.indexes : i.name = s.name
           THEN DbResult(NoErr, [db EXCEPT !.indexes = {i \in @ : i.name # s.name}])
           ELSE DbResult(ErrNotFound, db)
      [] s.op = "DropTable" ->
           IF s.table \notin db.tables THEN DbResult(NoErr, db)   \* IF EXISTS
           ELSE IF \/ \E i \in db.indexes : i.table = s.table
                   \/ \E c \in db.constraints :
                         c.type = "FOREIGN KEY" /\ c.refTable = s.table
                THEN DbResult(ErrInUse, db)
           ELSE DbResult(NoErr,
                  [db EXCEPT !.tables = @ \ {s.table},
                             !.columns = {p \in @ : p[1] # s.table},
                             !.constraints = {c \in @ : c.table # s.table}])

\* One administrative request (UpdateDatabaseDdl): the statements are applied
\* in order as one operation; a rejected statement rejects the request and
\* leaves the database as it was.
RECURSIVE ApplyAll(_, _)
ApplyRest(r, stmts) ==
    IF r.err # NoErr THEN r ELSE ApplyAll(r.live, stmts)

ApplyAll(db, stmts) ==
    IF stmts = << >> THEN DbResult(NoErr, db)
    ELSE ApplyRest(ApplyStatement(db, Head(stmts)), Tail(stmts))

AllOrNothing(db, r) == IF r.err # NoErr THEN DbResult(r.err, db) ELSE r

ApplyRequest(db, stmts) == AllOrNothing(db, ApplyAll(db, stmts))

-----------------------------------------------------------------------------
(* information_schema: the catalog views the migrator queries.              *)

TableConstraints(db) ==
    {[constraint_name |-> c.name, table_name |-> c.table,
      constraint_type |-> c.type] : c \in db.constraints}

\* The columns a constraint uses.  For a foreign key the view lists the
\* referenced columns, under the referenced table.
ConstraintColumnUsage(db) ==
    UNION {IF c.type = "FOREIGN KEY"
           THEN {[constraint_name |-> c.name, table_name |-> c.refTable,
                  column_name |-> "id"]}
           ELSE {[constraint_name |-> c.name, table_name |-> c.table,
                  column_name |-> col] : col \in c.columns}
           : c \in db.constraints}

ColumnsView(db) ==
    {[table_name |-> p[1], column_name |-> p[2]] : p \in db.columns}

-----------------------------------------------------------------------------
(* Introspection (spannerPostgresMigrator).  qerr says that the catalog      *)
(* query of the method fails.                                                *)

HasTable(db, t, qerr) ==
    IF qerr THEN FALSE ELSE t \in db.tables

HasColumn(db, t, c, qerr) ==
    IF qerr THEN FALSE
    ELSE \E col \in ColumnsView(db) : col.table_name = t /\ col.column_name = c

HasIndex(db, t, name, qerr) ==
    IF qerr THEN FALSE
    ELSE \E i \in db.indexes : i.table = t /\ i.name = name

HasConstraint(db, t, name, qerr) ==
    IF qerr THEN FALSE
    ELSE \E tc \in TableConstraints(db) :
            tc.table_name = t /\ tc.constraint_name = name

GeneratedIdColumn == "spanner_gorm_generated_id"

\* The join of the "check primary, unique field" queries of ColumnTypes:
\*   table_constraints tc JOIN constraint_column_usage ccu
\*     USING (constraint_schema, constraint_catalog, table_name, constraint_name)
\*   JOIN columns c ON tc.table_name = c.table_name
\*                 AND ccu.column_name = c.column_name
\*   WHERE constraint_type IN ('PRIMARY KEY', 'UNIQUE') AND c.table_name = ?
\*     AND NOT c.column_name = 'spanner_gorm_generated_id'
ConstraintJoinByColumnName(db, t) ==
    {[tc |-> x[1], ccu |-> x[2], c |-> x[3]] :
        x \in
        {x \in TableConstraints(db) \X ConstraintColumnUsage(db) \X ColumnsView(db) :
            /\ x[1].table_name = x[2].table_name
            /\ x[1].constraint_name = x[2].constraint_name
            /\ x[2].column_name = x[3].column_name
            /\ x[1].constraint_type \in {"PRIMARY KEY", "UNIQUE"}
            /\ x[3].table_name = t
            /\ x[3].column_name # GeneratedIdColumn}}

ConstraintJoin(db, t) ==
    {[tc |-> x[1], ccu |-> x[2], c |-> x[3]] :
        x \in
        {x \in TableConstraints(db) \X ConstraintColumnUsage(db) \X ColumnsView(db) :
            /\ x[1].table_name = x[2].table_name
            /\ x[1].constraint_name = x[2].constraint_name
            /\ x[1].table_name = x[3].table_name
            /\ x[2].column_name = x[3].column_name
            /\ x[1].constraint_type \in {"PRIMARY KEY", "UNIQUE"}
            /\ x[3].table_name = t
            /\ x[3].column_name # GeneratedIdColumn}}

\* ColumnTypes: one entry per column of the table, with the primary-key and
\* unique flags derived from the joined constraint rows.  A constraint makes
\* its column unique only when it covers exactly one column.
\* Faulty variant: every unique constraint counts as one of a single column.
uniqueContraintsAllSingle(rows, n) == 1

uniqueContraints(rows, n) ==
    Cardinality({r \in rows : r.tc.constraint_type = "UNIQUE"
                              /\ r.tc.constraint_name = n})

ColumnFlags(rows, columns) ==
    {[name |-> c.column_name,
      primaryKeyValid |-> TRUE,
      uniqueValid |-> TRUE,
      primaryKey |-> \E r \in rows :
                        /\ r.c.column_name = c.column_name
                        /\ r.tc.constraint_type = "PRIMARY KEY",
      unique |-> \E r \in rows :
                    /\ r.c.column_name = c.column_name
                    /\ r.tc.constraint_type = "UNIQUE"
                    /\ uniqueContraints(rows, r.tc.constraint_name) = 1] :
     c \in columns}

ColumnTypes(db, t) ==
    ColumnFlags(ConstraintJoin(db, t),
                {c \in ColumnsView(db) : c.table_name = t
                                         /\ c.column_name # GeneratedIdColumn})

-----------------------------------------------------------------------------
(* The base migrator's plan for one model (gorm migrator.Migrator, which    *)
(* autoMigrate calls with the methods above substituted for its own).        *)

PrimaryFields(model) == {f \in Range(model.fields) : f.primaryKey}

FkColumn(model) == "singer_id"

ForeignKeyOf(model) ==
    MkConstraint(FkName(model.table, model.parent), model.table, "FOREIGN KEY",
                 {FkColumn(model)}, ModelDef(model.parent).table)

UniqueConstraintOf(t, f) ==
    MkConstraint(UniqueName(t, f.name), t, "UNIQUE", {f.name}, "")

\* Faulty variant: the unique constraints of the fields are left out.
CreateTableWithoutUnique(model) ==
    LET t == model.table
        cons == {MkConstraint(PkName(t), t, "PRIMARY KEY",
                              {f.name : f \in PrimaryFields(model)}, "")}
                \cup (IF model.parent = "" THEN {} ELSE {ForeignKeyOf(model)})
    IN  << StmtCreateTable(t, [i \in 1..Len(model.fields) |-> model.fields[i].name], cons) >>
        \o [i \in 1..Len(model.indexes) |-> StmtCreateIndex(t, model.indexes[i])]

\* Faulty variant: the indexes are created before the table.
CreateTableIndexFirst(model) ==
    [i \in 1..Len(model.indexes) |-> StmtCreateIndex(model.table, model.indexes[i])]
    \o << StmtCreateTable(model.table,
                          [i \in 1..Len(model.fields) |-> model.fields[i].name], {}) >>

\* CREATE TABLE with its inline constraints, then (CreateIndexAfterCreateTable)
\* one CREATE INDEX per declared index.
CreateTable(model) ==
    LET t == model.table
        cons == {MkConstraint(PkName(t), t, "PRIMARY KEY",
                              {f.name : f \in PrimaryFields(model)}, "")}
                \cup {UniqueConstraintOf(t, f) :
                        f \in {f \in Range(model.fields) : f.unique}}
                \cup (IF model.parent = "" THEN {} ELSE {ForeignKeyOf(model)})
    IN  << StmtCreateTable(t, [i \in 1..Len(model.fields) |-> model.fields[i].name], cons) >>
        \o [i \in 1..Len(model.indexes) |-> StmtCreateIndex(t, model.indexes[i])]

\* gorm MigrateColumnUnique: reconcile the live unique flag with the field's.
MigrateColumnUnique(t, field, col) ==
    IF col.unique /\ ~field.unique
    THEN << StmtDropConstraint(t, UniqueName(t, field.name)) >>
    ELSE IF ~col.unique /\ field.unique
    THEN << StmtAddConstraint(UniqueConstraintOf(t, field)) >>
    ELSE << >>

\* Faulty variant: primary key fields are migrated like any other field.
MigrateColumnAnyField(t, field, col) == MigrateColumnUnique(t, field, col)

\* spannerPostgresMigrator.MigrateColumn: primary key fields are not migrated.
MigrateColumn(t, field, col) ==
    IF ~field.primaryKey
    THEN MigrateColumnUnique(t, field, col)
    ELSE << >>

ColumnOf(cols, n) == CHOOSE c \in cols : c.name = n

\* The statements for a model whose table exists: missing columns are added,
\* present ones migrated, then the missing foreign key and indexes are created.
MigrateFields(t, fields, cols) ==
    SeqConcat([i \in 1..Len(fields) |->
                  IF \E c \in cols : c.name = fields[i].name
                  THEN MigrateColumn(t, fields[i], ColumnOf(cols, fields[i].name))
                  ELSE << StmtAddColumn(t, fields[i].name) >>])

MigrateConstraint(db, t, fk, qerr) ==
    IF ~HasConstraint(db, t, fk.name, qerr)
    THEN << StmtAddConstraint(fk) >> ELSE << >>

MigrateIndexes(db, t, indexes, qerr) ==
    SeqConcat([i \in 1..Len(indexes) |->
                  IF HasIndex(db, t, indexes[i].name, qerr)
                  THEN << >> ELSE << StmtCreateIndex(t, indexes[i]) >>])

MigrateExistingTable(db, model, qf) ==
    MigrateFields(model.table, model.fields, ColumnTypes(db, model.table))
    \o (IF model.parent # ""
        THEN MigrateConstraint(db, model.table, ForeignKeyOf(model), qf = "HasConstraint")
        ELSE << >>)
    \o MigrateIndexes(db, model.table, model.indexes, qf = "HasIndex")

QueryFaults == {"none", "HasTable", "ColumnTypes", "HasConstraint", "HasIndex"}

\* Plan of the base AutoMigrate loop body for one model: the statements it
\* generates against the catalog, or the error of a failed ColumnTypes query.
PlanFor(db, model, qf) ==
    IF ~HasTable(db, model.table, qf = "HasTable")
    THEN [err |-> NoErr, stmts |-> CreateTable(model)]
    ELSE IF qf = "ColumnTypes"
    THEN [err |-> ErrUnavailable, stmts |-> << >>]
    ELSE [err |-> NoErr, stmts |-> MigrateExistingTable(db, model, qf)]

PlanModel(db, n, qf) == PlanFor(db, ModelDef(n), qf)

\* Faulty variant: the models are migrated in the order they were passed.
ReorderModelsAsPassed(values) == values

\* gorm ReorderModels(values, autoAdd = true): a model's parent is migrated
\* before the model, and is added when the caller did not pass it.
RECURSIVE AddWithDependencies(_, _)
AddWithDependencies(acc, n) ==
    IF n \in Range(acc) THEN acc
    ELSE LET withParent == IF ModelDef(n).parent = "" THEN acc
                           ELSE AddWithDependencies(acc, ModelDef(n).parent)
         IN  Append(withParent, n)

RECURSIVE ReorderFrom(_, _)
ReorderFrom(acc, values) ==
    IF values = << >> THEN acc
    ELSE ReorderFrom(AddWithDependencies(acc, Head(values)), Tail(values))

ReorderModels(values) == ReorderFrom(<< >>, values)

\* gorm ReorderModels(values, autoAdd = false): a model's parent comes before
\* the model when the caller passed both; nothing is added.
RECURSIVE AddWithin(_, _, _)
AddWithin(acc, n, values) ==
    IF n \in Range(acc) THEN acc
    ELSE IF ModelDef(n).parent \in Range(values)
    THEN Append(AddWithin(acc, ModelDef(n).parent, values), n)
    ELSE Append(acc, n)

RECURSIVE ReorderWithin(_, _, _)
ReorderWithin(acc, rest, values) ==
    IF rest = << >> THEN acc
    ELSE ReorderWithin(AddWithin(acc, Head(rest), values), Tail(rest), values)

ReorderModelsNoAdd(values) == ReorderWithin(<< >>, values, values)

-----------------------------------------------------------------------------
(* spannerPostgresMigrator.AlterColumn.                                      *)
(*   field : the declared field, or NoField when the schema has no such     *)
(*           field, or NilSchema / ParseFailed when the value has no schema: *)
(*           schema ("parsed", "nil" for a table name, "error" for a value   *)
(*           that cannot be parsed),                                         *)
(*           field: dataType, autoIncrement, notNull, hasDefault,            *)
(*           defaultValue (the tag text), defaultInterface (a parsed value)  *)
(*   col   : the live column as the catalog describes it, or NoColumn:       *)
(*           typeName (DatabaseTypeName), columnType, nullable, defaultOk,   *)
(*           defaultValue, autoIncrement, generated                          *)

ErrColumnTypeNotFound == "column type not found"
ErrLookUpField == "failed to look up field with name"

ErrParse == "unsupported data type"

\* The call does not return: runtime error, nil pointer dereference.
Panic == "panic"

NoField == [declared |-> FALSE, schema |-> "parsed"]
NilSchema == [declared |-> FALSE, schema |-> "nil"]
ParseFailed == [declared |-> FALSE, schema |-> "error"]
NoColumn == [present |-> FALSE]

\* postgres.Dialector.DataTypeOf for the data types of the model: bool and
\* unsized string; a type given by name (a type tag) is kept as it is.
PostgresDataTypeOf(field) ==
    CASE field.dataType = "bool" -> "boolean"
      [] field.dataType = "string" -> "text"
      [] OTHER -> field.dataType

\* Dialector.DataTypeOf
DataTypeOf(field) ==
    CASE field.dataType \in {"int", "uint"} ->
           IF field.autoIncrement THEN "serial" ELSE "int"
      [] field.dataType = "float" -> "numeric"
      [] field.dataType = "time" -> "timestamptz"
      [] OTHER -> IF field.autoIncrement THEN "serial"
                  ELSE PostgresDataTypeOf(field)

\* Faulty variant: a serial column always needs a bigint.
getSerialDatabaseTypeWide(s) == "bigint"

getSerialDatabaseType(s) ==
    CASE s = "smallserial" -> "integer"
      [] s = "serial" -> "integer"
      [] s = "bigserial" -> "bigint"
      [] OTHER -> ""

\* postgres.Migrator.GetTypeAliases
GetTypeAliases(typeName) ==
    CASE typeName = "int8" -> {"bigint"}
      [] typeName = "bigint" -> {"int8"}
      [] typeName = "int4" -> {"integer"}
      [] typeName = "integer" -> {"int4"}
      [] typeName = "bool" -> {"boolean"}
      [] typeName = "boolean" -> {"bool"}
      [] typeName = "timestamptz" -> {"timestamp with time zone"}
      [] typeName = "timestamp with time zone" -> {"timestamptz"}
      [] OTHER -> {}

\* strings.ToLower on the type names of the model (strings.EqualFold
\* compares two names without regard to case).
ToLower(s) ==
    CASE s = "BOOL" -> "bool"
      [] OTHER -> s

EqualFold(a, b) == ToLower(a) = ToLower(b)

\* strings.HasPrefix on the type names of the model.
HasPrefix(s, prefix) ==
    \/ s = prefix
    \/ <<s, prefix>> \in {<<"boolean", "bool">>, <<"bigint", "big">>,
                          <<"int8", "int">>, <<"int4", "int">>, <<"integer", "int">>}

\* Faulty variant: the aliases of the live type are not looked at.
isSameTypeWithoutAliases(typeName, fileType) == EqualFold(typeName, fileType)

isSameType(typeName, fileType) ==
    \/ EqualFold(typeName, fileType)
    \/ \E alias \in GetTypeAliases(typeName) : HasPrefix(fileType, alias)

StmtAlterType(t, c, ty, using) ==
    [op |-> "AlterColumnType", table |-> t, column |-> c, type |-> ty, using |-> using]
StmtSetNotNull(t, c) == [op |-> "SetNotNull", table |-> t, column |-> c]
StmtDropNotNull(t, c) == [op |-> "DropNotNull", table |-> t, column |-> c]
StmtSetDefault(t, c, v) == [op |-> "SetDefault", table |-> t, column |-> c, value |-> v]
StmtDropDefault(t, c) == [op |-> "DropDefault", table |-> t, column |-> c]
StmtSequence(kind, t, c, ty) ==
    [op |-> kind, table |-> t, column |-> c, type |-> ty]

\* The generated-column lookup: the count of catalog rows of the column with
\* a generation expression; a failing query leaves the count at zero.
\* RunWithValue does not run the lookup for a value that cannot be parsed.
isColumnGenerated(field, col, qerr) ==
    IF field.schema = "error" \/ qerr THEN FALSE
    ELSE col.present /\ col.generated

\* stmt.Schema.LookUpField(field) in the lookup: the Schema of a value given
\* as a table name is nil.
isColumnGeneratedPanics(field) == field.schema = "nil"

modifyColumn(t, field, targetType, col) ==
    (IF targetType = "boolean" /\ col.defaultValue # ""
     THEN << StmtDropDefault(t, field.name) >> ELSE << >>)
    \o << StmtAlterType(t, field.name, targetType,
                        targetType = "boolean"
                        /\ col.typeName \in {"int2", "int8", "numeric"}) >>

\* The default of a column that draws its values from its sequence.
NextvalDefault == "nextval"

\* m.CreateSequence: the sequence is created and the column default is
\* rewired to it.
CreateSequence(t, field, serialDatabaseType) ==
    << StmtSequence("CreateSequence", t, field.name, serialDatabaseType),
       StmtSetDefault(t, field.name, NextvalDefault) >>

\* m.DeleteSequence: the sequence is dropped and the default removed.
DeleteSequence(t, field, fileType) ==
    << StmtSequence("DropSequence", t, field.name, fileType),
       StmtDropDefault(t, field.name) >>

\* m.UpdateSequence: the sequence is replaced, not altered in place.
UpdateSequence(t, field, serialDatabaseType) ==
    << StmtSequence("DropSequence", t, field.name, serialDatabaseType),
       StmtSequence("CreateSequence", t, field.name, serialDatabaseType) >>

\* Faulty variant: the auto-increment flags are not looked at.
AlterTypeModifyOnly(t, field, col) ==
    IF isSameType(col.typeName, DataTypeOf(field)) THEN << >>
    ELSE modifyColumn(t, field, DataTypeOf(field), col)

\* "not same, migrate"
AlterType(t, field, col) ==
    IF isSameType(col.typeName, DataTypeOf(field)) THEN << >>
    ELSE IF field.autoIncrement /\ col.autoIncrement
    THEN IF col.columnType # getSerialDatabaseType(DataTypeOf(field))
         THEN UpdateSequence(t, field, getSerialDatabaseType(DataTypeOf(field)))
         ELSE << >>
    ELSE IF field.autoIncrement /\ ~col.autoIncrement
    THEN CreateSequence(t, field, getSerialDatabaseType(DataTypeOf(field)))
    ELSE IF ~field.autoIncrement /\ col.autoIncrement
    THEN DeleteSequence(t, field, DataTypeOf(field))
    ELSE modifyColumn(t, field, DataTypeOf(field), col)

AlterNullable(t, field, col) ==
    IF col.nullable = field.notNull
    THEN IF field.notNull THEN << StmtSetNotNull(t, field.name) >>
         ELSE << StmtDropNotNull(t, field.name) >>
    ELSE << >>

AlterDefault(t, field, col) ==
    IF (~field.defaultInterface /\ col.defaultOk)
       \/ col.defaultValue # field.defaultValue
    THEN IF field.hasDefault /\ (field.defaultInterface \/ field.defaultValue # "")
         THEN IF field.defaultInterface
              THEN << StmtSetDefault(t, field.name, "interface") >>
              ELSE IF field.defaultValue # "(-)"
              THEN << StmtSetDefault(t, field.name, field.defaultValue) >>
              ELSE << StmtDropDefault(t, field.name) >>
         ELSE IF ~field.hasDefault
         THEN << StmtDropDefault(t, field.name) >>
         ELSE << >>
    ELSE << >>

\* The statements AlterColumn hands to Exec, in order, and the error it
\* returns when none of them fails.  qgen / qcols: the generated-column
\* lookup / the ColumnTypes query fails.
AlterColumn(t, field, col, qgen, qcols) ==
    IF isColumnGeneratedPanics(field)
    THEN [err |-> Panic, stmts |-> << >>]
    ELSE IF isColumnGenerated(field, col, qgen)
    THEN [err |-> NoErr, stmts |-> << >>]
    ELSE IF field.schema = "error"
    THEN [err |-> ErrParse, stmts |-> << >>]
    ELSE IF field.schema = "nil" \/ ~field.declared
    THEN [err |-> ErrLookUpField, stmts |-> << >>]
    ELSE IF qcols \/ ~col.present
    THEN [err |-> ErrColumnTypeNotFound, stmts |-> << >>]
    ELSE [err |-> NoErr,
          stmts |-> AlterType(t, field, col) \o AlterNullable(t, field, col)
                    \o AlterDefault(t, field, col)]

\* The number of statements of AlterColumn that come before the default
\* step (lines 602-626).
BeforeDefault(t, field, col) ==
    Len(AlterType(t, field, col)) + Len(AlterNullable(t, field, col))

-----------------------------------------------------------------------------
(* The connection of a migrator and its DDL batch (go-sql-spanner).          *)

NoBatch == [active |-> FALSE, batch |-> << >>]

CmdStart == [cmd |-> "START BATCH DDL"]
CmdRun == [cmd |-> "RUN BATCH"]
CmdAbort == [cmd |-> "ABORT BATCH"]
CmdExec(s) == [cmd |-> "EXEC", stmt |-> s]

\* The outcome of a request the connection sent: r is the database's answer.
Sent(cn, stmts, r) ==
    [err |-> r.err, conn |-> cn, live |-> r.live, reqs |-> << stmts >>]

\* Faulty variant: a batched statement is put in front of the batch.
ExecDDLPrepend(cn, db, s, fault) ==
    IF fault
    THEN [err |-> ErrUnavailable, conn |-> cn, live |-> db,
          reqs |-> IF cn.active THEN << >> ELSE << <<s>> >>]
    ELSE IF cn.active
    THEN [err |-> NoErr, conn |-> [cn EXCEPT !.batch = <<s>> \o @],
          live |-> db, reqs |-> << >>]
    ELSE Sent(cn, <<s>>, ApplyRequest(db, <<s>>))

\* Faulty variant: the error of an unbatched statement is not looked at.
ExecDDLIgnoreError(cn, db, s, fault) ==
    IF cn.active
    THEN [err |-> IF fault THEN ErrUnavailable ELSE NoErr,
          conn |-> IF fault THEN cn ELSE [cn EXCEPT !.batch = Append(@, s)],
          live |-> db, reqs |-> << >>]
    ELSE [err |-> NoErr, conn |-> cn,
          live |-> IF fault THEN db ELSE ApplyRequest(db, <<s>>).live,
          reqs |-> << <<s>> >>]

\* m.DB.Exec of one DDL statement.  With a batch active the statement is only
\* buffered; otherwise it is sent as an administrative request of its own.
\* fault: the round trip fails and has no effect.
ExecDDL(cn, db, s, fault) ==
    IF fault
    THEN [err |-> ErrUnavailable, conn |-> cn, live |-> db,
          reqs |-> IF cn.active THEN << >> ELSE << <<s>> >>]
    ELSE IF cn.active
    THEN [err |-> NoErr, conn |-> [cn EXCEPT !.batch = Append(@, s)],
          live |-> db, reqs |-> << >>]
    ELSE Sent(cn, <<s>>, ApplyRequest(db, <<s>>))

\* The statements of one model, executed in order until one fails.
\* xf is the position of the statement whose Exec fails by a fault (0: none);
\* done is the number of statements handed to Exec.
RECURSIVE ExecEach(_, _, _, _, _)
ExecAfter(reqs, rest) == [rest EXCEPT !.reqs = reqs \o @]

ExecRest(r, stmts, xf, k) ==
    IF r.err # NoErr
    THEN [err |-> r.err, conn |-> r.conn, live |-> r.live,
          reqs |-> r.reqs, done |-> k]
    ELSE ExecAfter(r.reqs, ExecEach(r.conn, r.live, stmts, xf, k + 1))

ExecEach(cn, db, stmts, xf, k) ==
    IF k > Len(stmts)
    THEN [err |-> NoErr, conn |-> cn, live |-> db, reqs |-> << >>, done |-> Len(stmts)]
    ELSE ExecRest(ExecDDL(cn, db, stmts[k], xf = k), stmts, xf, k)

\* RUN BATCH: the buffered statements go out as one request; the batch is
\* gone from the connection whatever the outcome.
RunBatch(cn, db, fault) ==
    IF ~cn.active
    THEN [err |-> ErrNoBatch, conn |-> cn, live |-> db, reqs |-> << >>]
    ELSE IF fault
    THEN [err |-> ErrUnavailable, conn |-> NoBatch, live |-> db, reqs |-> << >>]
    ELSE IF cn.batch = << >>
    THEN [err |-> NoErr, conn |-> NoBatch, live |-> db, reqs |-> << >>]
    ELSE Sent(NoBatch, cn.batch, ApplyRequest(db, cn.batch))

\* ABORT BATCH: drops the batch; a no-op without one.
AbortBatch(cn) == NoBatch

-----------------------------------------------------------------------------
(* Dialector.Migrator: the connection the migrator is given.                 *)

\* gorm.DB.ConnPool: the pool of the database handle (*sql.DB), or one
\* connection of it (*sql.Conn).
ConnIds == {"c1", "c2"}
SqlDB == [kind |-> "pool"]
SqlConn(c) == [kind |-> "conn", id |-> c]

\* The ConnPool of the migrator that Dialector.Migrator returns for a DB with
\* ConnPool connPool.  dbErr: db.DB() fails; connErr: sqlDB.Conn() fails
\* (conn stays nil); fresh: the connection sqlDB.Conn() hands out.
Migrator(connPool, dbErr, connErr, fresh) ==
    IF connPool.kind = "conn" THEN connPool
    ELSE IF dbErr \/ connErr THEN connPool
    ELSE SqlConn(fresh)

\* The connection a statement of the migrator (queryRaw, m.DB.Exec) runs on:
\* the migrator's own, or whichever connection the pool hands out.
ConnOf(connPool, handedOut) ==
    IF connPool.kind = "conn" THEN connPool.id ELSE handedOut

-----------------------------------------------------------------------------
(* spannerPostgresMigrator.GetIndexes.                                       *)

PrimaryKeyIndex == <<"PRIMARY_KEY">>

\* information_schema.indexes: the primary key of a table, its secondary
\* indexes, and the managed index that backs each of its foreign keys.
IndexesView(db) ==
    {[table_name |-> c.table, index_name |-> PrimaryKeyIndex,
      index_type |-> "PRIMARY_KEY", is_unique |-> TRUE,
      spanner_is_managed |-> FALSE, columns |-> Rows(c.columns)] :
        c \in {c \in db.constraints : c.type = "PRIMARY KEY"}}
    \cup {[table_name |-> i.table, index_name |-> i.name,
           index_type |-> "INDEX", is_unique |-> i.unique,
           spanner_is_managed |-> FALSE, columns |-> i.columns] :
             i \in db.indexes}
    \cup {[table_name |-> c.table, index_name |-> <<"IDX", c.name>>,
           index_type |-> "INDEX", is_unique |-> FALSE,
           spanner_is_managed |-> TRUE, columns |-> Rows(c.columns)] :
             c \in {c \in db.constraints : c.type = "FOREIGN KEY"}}

\* The collation of index names: PRIMARY_KEY sorts before idx_<table>_<x>,
\* and those sort by <x>.
NameOrder == <<"deleted_at", "sha256", "size", "time">>

NameRank(n) ==
    IF n = PrimaryKeyIndex THEN 0
    ELSE CHOOSE k \in 1..Len(NameOrder) : NameOrder[k] = n[3]

RECURSIVE OrderByName(_)
OrderByName(S) ==
    IF S = {} THEN << >>
    ELSE LET x == CHOOSE x \in S :
                    \A y \in S : NameRank(x.index_name) <= NameRank(y.index_name)
         IN  << x >> \o OrderByName(S \ {x})

\* indexSql: indexes JOIN index_columns, the non-managed indexes of table t,
\* ORDER BY index_name, ordinal_position; one row per index column.
IndexColumnRows(i) ==
    [k \in 1..Len(i.columns) |->
        [table_name |-> i.table_name, index_name |-> i.index_name,
         non_unique |-> i.is_unique, primary |-> i.index_type = "PRIMARY_KEY",
         column_name |-> i.columns[k]]]

SelectedIndexes(db, t) ==
    OrderByName({i \in IndexesView(db) : ~i.spanner_is_managed /\ i.table_name = t})

indexSql(db, t) ==
    SeqConcat([k \in 1..Len(SelectedIndexes(db, t)) |->
                  IndexColumnRows(SelectedIndexes(db, t)[k])])

IsRowOf(n, row) == row.index_name = n

\* groupByIndexName: a map from the index name to its rows, in row order.
groupByIndexName(indexList) ==
    [n \in {indexList[k].index_name : k \in 1..Len(indexList)} |->
        LET Test(row) == IsRowOf(n, row) IN SelectSeq(indexList, Test)]

IndexEntry(idx) ==
    [table |-> idx[1].table_name, name |-> idx[1].index_name,
     primaryKey |-> idx[1].primary, unique |-> idx[1].non_unique,
     columns |-> [k \in 1..Len(idx) |-> idx[k].column_name]]

\* The orders in which a range over the map may visit its keys.
MapOrders(indexMap) ==
    {s \in [1..Cardinality(DOMAIN indexMap) -> DOMAIN indexMap] :
        Range(s) = DOMAIN indexMap}

\* GetIndexes: one entry per key of the map, in the order visit in which the
\* range over the map comes by the keys.
GetIndexes(indexList, visit, qerr) ==
    IF qerr THEN [err |-> ErrUnavailable, indexes |-> << >>]
    ELSE [err |-> NoErr,
          indexes |-> [k \in 1..Len(visit) |->
                         IndexEntry(groupByIndexName(indexList)[visit[k]])]]

-----------------------------------------------------------------------------
(* spannerPostgresMigrator.DropTable.                                        *)

\* The foreign keys of other tables that reference t are dropped.
dropForeignKeysReferencingTable(db, t) ==
    Rows({StmtDropConstraint(c.table, c.name) :
            c \in {c \in db.constraints :
                     c.type = "FOREIGN KEY" /\ c.refTable = t}})

\* The indexes of t that are neither managed nor the primary key are dropped.
dropTableIndexes(db, t) ==
    Rows({StmtDropIndex(t, i.name) : i \in {i \in db.indexes : i.table = t}})

\* Faulty variant: the indexes are dropped before the foreign keys.
dropTableDependenciesIndexesFirst(db, t) ==
    dropTableIndexes(db, t) \o dropForeignKeysReferencingTable(db, t)

dropTableDependencies(db, t) ==
    dropForeignKeysReferencingTable(db, t) \o dropTableIndexes(db, t)

\* A fault of a DropTable call: at the at-th model of the reordered list
\* either the catalog query of the dependencies fails, or the Exec of the
\* pos-th statement does.
NoDropFault == [at |-> 0, query |-> FALSE, pos |-> 0]

DropResult(e, cn, db, stmts) ==
    [err |-> e, conn |-> cn, live |-> db, executed |-> stmts]

DropAfter(stmts, rest) == [rest EXCEPT !.executed = stmts \o @]

\* The loop of DropTable over values[k], values[k-1], ..., values[1].
RECURSIVE DropFrom(_, _, _, _, _)
DropRest(r, stmts, order, k, f) ==
    IF r.err # NoErr
    THEN DropResult(r.err, r.conn, r.live, Take(stmts, r.done))
    ELSE DropAfter(stmts, DropFrom(r.conn, r.live, order, k - 1, f))

DropModel(cn, db, stmts, order, k, f) ==
    DropRest(ExecEach(cn, db, stmts, IF f.at = k THEN f.pos ELSE 0, 1),
             stmts, order, k, f)

DropFrom(cn, db, order, k, f) ==
    IF k = 0 THEN DropResult(NoErr, cn, db, << >>)
    ELSE IF f.at = k /\ f.query THEN DropResult(ErrUnavailable, cn, db, << >>)
    ELSE DropModel(cn, db,
                   dropTableDependencies(db, ModelDef(order[k]).table)
                   \o << StmtDropTable(ModelDef(order[k]).table) >>,
                   order, k, f)

\* Faulty variant: the reordered models are dropped first to last.
DropTableForward(cn, db, values, f) ==
    DropFrom(cn, db, Reverse(ReorderModelsNoAdd(values)), Len(values), f)

DropTable(cn, db, values, f) ==
    DropFrom(cn, db, ReorderModelsNoAdd(values), Len(values), f)

-----------------------------------------------------------------------------
(* spannerPostgresMigrator.CreateTable with AutoAddPrimaryKey.               *)

MaxCreates == 3

\* The models CreateTable is called with: without a primary key, with a
\* primary key field, with PRIMARY KEY in the type tag of a field, and with
\* such a field that is excluded from migration.
SchemaModels == {"Log", "User", "Event", "Draft"}

SchemaField(n, dt, ai, ig) ==
    [name |-> n, dataType |-> dt, autoIncrement |-> ai, ignoreMigration |-> ig]

\* schema.Parse: the fields in DBNames order, and PrimaryFields.
ParsedSchemas ==
    [n \in SchemaModels |->
       CASE n = "Log" ->
              [table |-> "logs", primaryFields |-> {},
               fields |-> << SchemaField("message", "string", FALSE, FALSE) >>]
         [] n = "User" ->
              [table |-> "users", primaryFields |-> {"id"},
               fields |-> << SchemaField("id", "int", TRUE, FALSE),
                             SchemaField("name", "string", FALSE, FALSE) >>]
         [] n = "Event" ->
              [table |-> "events", primaryFields |-> {},
               fields |-> << SchemaField("event_id", "bigint primary key", FALSE, FALSE),
                             SchemaField("title", "string", FALSE, FALSE) >>]
         [] n = "Draft" ->
              [table |-> "drafts", primaryFields |-> {},
               fields |-> << SchemaField("draft_id", "bigint primary key", FALSE, TRUE),
                             SchemaField("title", "string", FALSE, FALSE) >>]]

\* Faulty variant: the data type is searched as it is written.
ToUpperAsWritten(s) == s

\* strings.ToUpper
ToUpper(s) ==
    CASE s = "serial primary key" -> "SERIAL PRIMARY KEY"
      [] s = "bigint primary key" -> "BIGINT PRIMARY KEY"
      [] s = "serial" -> "SERIAL"
      [] s = "int" -> "INT"
      [] s = "text" -> "TEXT"
      [] OTHER -> s

\* strings.Contains(s, "PRIMARY KEY")
ContainsPrimaryKey(s) == s \in {"SERIAL PRIMARY KEY", "BIGINT PRIMARY KEY"}

hasPrimaryKeyInDataType(fields) ==
    \E i \in 1..Len(fields) :
       /\ ~fields[i].ignoreMigration
       /\ ContainsPrimaryKey(ToUpper(DataTypeOf(fields[i])))

GeneratedIdField ==
    SchemaField(GeneratedIdColumn, "serial primary key", FALSE, FALSE)

\* The callback CreateTable runs on the parsed schema of one value: the
\* field is appended to the cached schema; PrimaryFields is left as it was.
addGeneratedPrimaryKey(sch) ==
    IF ~hasPrimaryKeyInDataType(sch.fields) /\ Cardinality(sch.primaryFields) = 0
    THEN [sch EXCEPT !.fields = Append(@, GeneratedIdField)]
    ELSE sch

RECURSIVE addGeneratedPrimaryKeys(_, _)
addGeneratedPrimaryKeys(cache, values) ==
    IF values = << >> THEN cache
    ELSE addGeneratedPrimaryKeys(
           [cache EXCEPT ![Head(values)] = addGeneratedPrimaryKey(@)],
           Tail(values))

IsMigratedField(f) == ~f.ignoreMigration

\* The column definition carries PRIMARY KEY inline.
InlinePrimaryKey(f) ==
    DataTypeOf(f) \in {"serial primary key", "bigint primary key"}

\* gorm CreateTable for one schema: the migrated fields as columns, the
\* primary key from PrimaryFields or from the column definitions.
CreateTableOf(sch) ==
    LET fs == SelectSeq(sch.fields, IsMigratedField)
        pk == sch.primaryFields
              \cup {fs[i].name : i \in {i \in 1..Len(fs) : InlinePrimaryKey(fs[i])}}
    IN  StmtCreateTable(sch.table, [i \in 1..Len(fs) |-> fs[i].name],
                        IF pk = {} THEN {}
                        ELSE {MkConstraint(PkName(sch.table), sch.table,
                                           "PRIMARY KEY", pk, "")})

\* Spanner rejects a table without a primary key.
ExecCreateTable(db, s) ==
    IF s.constraints = {} THEN DbResult(ErrNoPrimaryKey, db)
    ELSE ApplyStatement(db, s)

RECURSIVE BaseCreateTable(_, _, _, _)
BaseCreateNext(cache, r, rest, executed) ==
    IF r.err # NoErr
    THEN [schemas |-> cache, live |-> r.live, err |-> r.err, executed |-> executed]
    ELSE BaseCreateTable(cache, r.live, rest, executed)

\* gorm CreateTable(values...): one CREATE TABLE per value, executed at
\* once; the first error is returned.
BaseCreateTable(cache, db, values, executed) ==
    IF values = << >>
    THEN [schemas |-> cache, live |-> db, err |-> NoErr, executed |-> executed]
    ELSE BaseCreateNext(cache,
                        ExecCreateTable(db, CreateTableOf(cache[Head(values)])),
                        Tail(values),
                        Append(executed, CreateTableOf(cache[Head(values)])))

\* spannerPostgresMigrator.CreateTable
CreateTableValues(auto, cache, db, values) ==
    IF ~auto THEN BaseCreateTable(cache, db, values, << >>)
    ELSE BaseCreateTable(addGeneratedPrimaryKeys(cache, values), db, values, << >>)

-----------------------------------------------------------------------------
(* State.                                                                    *)

NoOp == [method |-> "none"]

IdleCall ==
    [pc |-> "idle", dryRun |-> FALSE, values |-> << >>, order |-> << >>,
     i |-> 0, c |-> 0, deferred |-> FALSE, generated |-> << >>,
     cmds |-> << >>, reqs |-> << >>, pre |-> EmptyDb, post |-> EmptyDb,
     err |-> NoErr, statements |-> << >>, qfault |-> FALSE,
     fault |-> FALSE, failed |-> "", raised |-> NoErr,
     prev |-> [valid |-> FALSE]]

Init ==
    /\ live = EmptyDb
    /\ conn = [m \in Migrators |-> NoBatch]
    /\ cfg \in [Migrators -> BOOLEAN]
    /\ call = [m \in Migrators |-> IdleCall]
    /\ last = [valid |-> FALSE]
    /\ ncalls = 0
    /\ nfaults = 0
    /\ op = NoOp
    /\ handle = "open"
    /\ bound = [m \in Migrators |-> Migrator(SqlDB, FALSE, FALSE, "c1")]
    /\ autoAddPrimaryKey = FALSE
    /\ schemas = ParsedSchemas

\* Fault injection: n more faults are charged to the budget.
Faults(n) ==
    /\ nfaults + n <= MaxFaults
    /\ nfaults' = nfaults + n

B2N(b) == IF b THEN 1 ELSE 0

Quiescent == \A m \in Migrators : call[m].pc \in {"idle", "done"}

\* Faulty variant: no deferred ABORT BATCH.
ReturnedWithoutDefer(cl, cn, db, e, stmts) ==
    [call |-> [cl EXCEPT !.pc = "done", !.err = e, !.statements = stmts,
                         !.post = db, !.raised = e],
     conn |-> cn]

\* Faulty variant: the result of the deferred ABORT BATCH is what is returned.
ReturnedAbortResult(cl, cn, db, e, stmts) ==
    [call |-> [cl EXCEPT !.pc = "done",
                         !.err = IF cl.deferred THEN NoErr ELSE e,
                         !.statements = stmts,
                         !.post = db, !.raised = e,
                         !.cmds = IF cl.deferred THEN Append(@, CmdAbort) ELSE @],
     conn |-> IF cl.deferred THEN AbortBatch(cn) ELSE cn]

\* The call record and connection when autoMigrate returns (err, statements):
\* the deferred function, if registered, aborts the batch.
Returned(cl, cn, db, e, stmts) ==
    [call |-> [cl EXCEPT !.pc = "done", !.err = e, !.statements = stmts,
                         !.post = db, !.raised = e,
                         !.cmds = IF cl.deferred THEN Append(@, CmdAbort) ELSE @],
     conn |-> IF cl.deferred THEN AbortBatch(cn) ELSE cn]

Summary(m, cl) ==
    [valid |-> TRUE, dryRun |-> cl.dryRun, values |-> cl.values,
     err |-> cl.err, statements |-> cl.statements, post |-> cl.post]

\* Common frame of a step of migrator m that leaves the call in record r.call
\* and the connection in r.conn.  Migrators that were left with the pool
\* work on the connection the pool has idle, one and the same for all of
\* them; a migrator with a connection of its own works on that one.
Step(m, r, db) ==
    /\ call' = [call EXCEPT ![m] = r.call]
    /\ conn' = [k \in DOMAIN conn |->
                  IF bound[k] = bound[m] THEN r.conn ELSE conn[k]]
    /\ live' = db
    /\ last' = IF r.call.pc = "done" THEN Summary(m, r.call) ELSE last
    /\ UNCHANGED <<cfg, op, handle, bound,
               autoAddPrimaryKey, schemas>>

-----------------------------------------------------------------------------
(* spannerPostgresMigrator.autoMigrate, one action per stage.                *)

\* Faulty variants of the batch decision: the dry run forgotten, the
\* configuration forgotten, the configuration ignored.
UsesBatchConfigOnly(dryRun, disableAutoBatching) == ~disableAutoBatching

UsesBatchDryRunOnly(dryRun, disableAutoBatching) == dryRun

UsesBatchAlways(dryRun, disableAutoBatching) == TRUE

\* if dryRun || !disableAutoBatching
UsesBatch(dryRun, disableAutoBatching) == dryRun \/ ~disableAutoBatching

\* Faulty variant: the sequence kind is set without looking at the count.
AfterBatchDecisionUncounted(cl) == "seqkind"

\* Faulty variant: the sequence kind is never set.
AfterBatchDecisionSkipped(cl) == "migrate"

\* Position after the batch decision: the sequence-kind statement is only
\* issued when the option count c is zero.
AfterBatchDecision(cl) == IF cl.c = 0 THEN "seqkind" ELSE "migrate"

AfterModel(cl) == IF cl.i > Len(cl.order) THEN "finish" ELSE "migrate"

\* Faulty variant: the error of the count query is not looked at.
CountErrorIgnored(qerr) == NoErr

\* The error of the query that counts the database option
\* default_sequence_kind; on a closed handle every query fails.
CountError(qerr) == IF qerr THEN ErrUnavailable ELSE NoErr

\* AutoMigrate / AutoMigrateDryRun are entered and the database option
\* default_sequence_kind is counted.  A failing count query returns at once.
Begin(m, lists) ==
    /\ ncalls < MaxCalls
    /\ ncalls' = ncalls + 1
    /\ \E dryRun \in BOOLEAN, values \in lists, qerr \in BOOLEAN :
         \E cl \in {[IdleCall EXCEPT !.dryRun = dryRun, !.values = values,
                                     !.order = ReorderModels(values), !.i = 1,
                                     !.c = IF live.seqKind THEN 1 ELSE 0,
                                     !.pre = live, !.post = live,
                                     !.qfault = qerr, !.prev = last]} :
             /\ handle = "closed" => qerr
             /\ Faults(B2N(qerr /\ handle # "closed"))
             /\ IF CountError(qerr) # NoErr
                THEN Step(m, Returned([cl EXCEPT !.failed = "count"], conn[m], live,
                                      CountError(qerr), << >>), live)
                ELSE Step(m, [call |-> [cl EXCEPT !.pc =
                                           IF UsesBatch(dryRun, cfg[m]) THEN "start"
                                           ELSE AfterBatchDecision(cl)],
                              conn |-> conn[m]], live)

\* One caller: a call begins when the one before it has returned.
AutoMigrateBegin(m) ==
    /\ Quiescent
    /\ Begin(m, ModelLists)

\* The error of START BATCH DDL on connection cn.
StartError(cn, fault) ==
    IF fault THEN ErrUnavailable
    ELSE IF cn.active THEN ErrBatchActive ELSE NoErr

\* START BATCH DDL, and the registration of the deferred ABORT BATCH.
StartBatchDDL(m) ==
    /\ call[m].pc = "start"
    /\ UNCHANGED ncalls
    /\ \E fault \in BOOLEAN :
         \E cl \in {[call[m] EXCEPT !.cmds = Append(@, CmdStart),
                                    !.fault = @ \/ fault]} :
             /\ Faults(B2N(fault))
             /\ IF StartError(conn[m], fault) # NoErr
                THEN Step(m, Returned([cl EXCEPT !.failed = "start"], conn[m], live,
                                      StartError(conn[m], fault), << >>), live)
                ELSE Step(m, [call |-> [cl EXCEPT !.deferred = TRUE,
                                                  !.pc = AfterBatchDecision(cl)],
                              conn |-> [active |-> TRUE, batch |-> << >>]], live)

\* alter database "db" set spanner.default_sequence_kind = 'bit_reversed_positive'
SetDefaultSequenceKind(m) ==
    /\ call[m].pc = "seqkind"
    /\ UNCHANGED ncalls
    /\ \E fault \in BOOLEAN :
         \E r \in {ExecDDL(conn[m], live, StmtSetSequenceKind, fault)} :
         \E cl \in {[call[m] EXCEPT !.generated = Append(@, StmtSetSequenceKind),
                                    !.cmds = Append(@, CmdExec(StmtSetSequenceKind)),
                                    !.reqs = @ \o r.reqs,
                                    !.fault = @ \/ fault]} :
             /\ Faults(B2N(fault))
             /\ IF r.err # NoErr
                THEN Step(m, Returned([cl EXCEPT !.failed = "seqkind"], r.conn, r.live,
                                      r.err, << >>), r.live)
                ELSE Step(m, [call |-> [cl EXCEPT !.pc = "migrate"],
                              conn |-> r.conn], r.live)

QueryApplies(db, model, qf) ==
    CASE qf = "none" -> TRUE
      [] qf = "HasTable" -> TRUE
      [] qf = "ColumnTypes" -> model.table \in db.tables
      [] qf = "HasConstraint" -> model.table \in db.tables /\ model.parent # ""
      [] qf = "HasIndex" -> model.table \in db.tables /\ model.indexes # << >>

\* One round of the base AutoMigrate loop: the next model is planned against
\* the catalog and its statements are executed in the order generated.
MigrateModel(m) ==
    /\ call[m].pc = "migrate"
    /\ UNCHANGED ncalls
    /\ \E qf \in QueryFaults :
         /\ QueryApplies(live, ModelDef(call[m].order[call[m].i]), qf)
         /\ \E plan \in {PlanModel(live, call[m].order[call[m].i], qf)} :
            \E xf \in 0..Len(plan.stmts) :
            \E r \in {ExecEach(conn[m], live, plan.stmts, xf, 1)} :
            \E cl \in {[call[m] EXCEPT
                          !.qfault = @ \/ qf # "none",
                          !.generated = @ \o Take(plan.stmts, r.done),
                          !.cmds = @ \o [k \in 1..r.done |-> CmdExec(plan.stmts[k])],
                          !.reqs = @ \o r.reqs,
                          !.fault = @ \/ xf # 0,
                          !.i = @ + 1]} :
                /\ xf \in {0, r.done}
                /\ Faults(B2N(qf # "none") + B2N(xf # 0))
                /\ IF plan.err # NoErr
                   THEN Step(m, Returned([call[m] EXCEPT !.qfault = TRUE,
                                                         !.failed = "plan"],
                                         conn[m], live, plan.err, << >>), live)
                   ELSE IF r.err # NoErr
                   THEN Step(m, Returned([cl EXCEPT !.failed = "exec",
                                                    !.i = call[m].i], r.conn,
                                         r.live, r.err, << >>), r.live)
                   ELSE Step(m, [call |-> [cl EXCEPT !.pc = AfterModel(cl)],
                                 conn |-> r.conn], r.live)

\* The base migration succeeded: return at once (unbatched), hand out the
\* batched statements and abort (dry run; an error when the migrator was
\* left with the pool), or run the batch.
Finish(m) ==
    /\ call[m].pc = "finish"
    /\ UNCHANGED ncalls
    /\ IF ~call[m].dryRun /\ cfg[m]
       THEN /\ Faults(0)
            /\ Step(m, Returned(call[m], conn[m], live, NoErr, << >>), live)
       ELSE IF call[m].dryRun /\ bound[m].kind # "conn"
       THEN /\ Faults(0)
            /\ Step(m, Returned([call[m] EXCEPT !.failed = "connpool"],
                                conn[m], live, ErrConnPool, << >>), live)
       ELSE IF call[m].dryRun
       THEN /\ Faults(0)
            /\ Step(m, Returned([call[m] EXCEPT !.cmds = Append(@, CmdAbort)],
                                AbortBatch(conn[m]), live, NoErr,
                                conn[m].batch), live)
       ELSE \E fault \in BOOLEAN :
            \E r \in {RunBatch(conn[m], live, fault)} :
              /\ Faults(B2N(fault))
              /\ Step(m, Returned([call[m] EXCEPT
                                      !.cmds = Append(@, CmdRun),
                                      !.reqs = @ \o r.reqs,
                                      !.fault = @ \/ fault,
                                      !.failed = IF r.err # NoErr THEN "run" ELSE ""],
                                  r.conn, r.live, r.err, << >>), r.live)

\* Another client of the database adds a single-column UNIQUE entry to the
\* catalog while no migration is running.
ExternalSchemaChange ==
    /\ Quiescent
    /\ \E t \in {"as", "bs"} :
         /\ <<t, "sha256">> \in live.columns
         /\ UniqueConstraintOf(t, [name |-> "sha256"]) \notin live.constraints
         /\ live' = [live EXCEPT !.constraints =
                         @ \cup {UniqueConstraintOf(t, [name |-> "sha256"])}]
    /\ UNCHANGED <<conn, cfg, call, last, ncalls, nfaults, op, handle, bound,
               autoAddPrimaryKey, schemas>>

Next ==
    \/ \E m \in Migrators : AutoMigrateBegin(m)
    \/ \E m \in Migrators : StartBatchDDL(m)
    \/ \E m \in Migrators : SetDefaultSequenceKind(m)
    \/ \E m \in Migrators : MigrateModel(m)
    \/ \E m \in Migrators : Finish(m)
    \/ ExternalSchemaChange

Spec == Init /\ [][Next]_vars

-----------------------------------------------------------------------------
(* Direct calls of the migrator's methods (db.Migrator().AlterColumn(...),   *)
(* ...), one call per behaviour, with the arguments drawn from the sets      *)
(* below.                                                                    *)

FieldDefaults ==
    { [hasDefault |-> FALSE, defaultValue |-> "", defaultInterface |-> FALSE],
      [hasDefault |-> TRUE, defaultValue |-> "x", defaultInterface |-> FALSE],
      [hasDefault |-> TRUE, defaultValue |-> "(-)", defaultInterface |-> FALSE],
      [hasDefault |-> TRUE, defaultValue |-> "1", defaultInterface |-> TRUE] }

\* The data types of the declared fields: gorm's int, bool, string and
\* time, and types given by name in a type tag.
FieldTypes ==
    {"int", "bool", "string", "time", "bigint", "BOOL",
     "timestamp with time zone"}

Fields ==
    { [declared |-> TRUE, schema |-> "parsed",
       name |-> "full_name", dataType |-> ty,
       autoIncrement |-> ai, notNull |-> nn, hasDefault |-> d.hasDefault,
       defaultValue |-> d.defaultValue, defaultInterface |-> d.defaultInterface] :
      ty \in FieldTypes, ai \in BOOLEAN, nn \in BOOLEAN,
      d \in FieldDefaults }

\* The column_default values of the catalog rows: none, a quoted text with
\* a cast, a number, and the default of a sequence-backed column.
ColumnDefaults ==
    {"", "'x'::text", "1", "nextval('singers_full_name_seq'::regclass)"}

\* autoIncrementValuePattern.MatchString
IsNextval(d) == d = "nextval('singers_full_name_seq'::regclass)"

\* parseDefaultValueValue: the cast is cut off and the quotes are trimmed.
parseDefaultValueValue(d) ==
    CASE d = "'x'::text" -> "x"
      [] OTHER -> d

\* spanner_type of a column of the given udt_name.
SpannerType(ty) ==
    CASE ty = "int8" -> "bigint"
      [] ty = "int4" -> "integer"
      [] ty = "bool" -> "boolean"
      [] ty = "text" -> "character varying"
      [] ty = "timestamptz" -> "timestamp with time zone"

\* The column type ColumnTypes builds from one catalog row: a column whose
\* default is a nextval is auto-increment and is reported without default.
Columns ==
    { [present |-> TRUE, typeName |-> ty,
       columnType |-> SpannerType(ty),
       nullable |-> nu,
       defaultOk |-> d # "" /\ ~IsNextval(d),
       defaultValue |-> IF IsNextval(d) THEN "" ELSE parseDefaultValueValue(d),
       autoIncrement |-> IsNextval(d), generated |-> g] :
      ty \in {"int8", "int4", "bool", "text", "timestamptz"},
      nu \in BOOLEAN, d \in ColumnDefaults, g \in BOOLEAN }

\* The argument lists DropTable is called with.
DropLists ==
    { <<"Singer">>, <<"Album">>, <<"Bs">>,
      <<"Singer", "Album">>, <<"Album", "Singer">>,
      <<"Album", "Bs">>, <<"Bs", "Singer">>,
      <<"Singer", "Album", "Bs">>, <<"Album", "Bs", "Singer">>,
      <<"Bs", "Album", "Singer">>, <<"Singer", "Bs", "Album">> }

DropFaults(values) ==
    {NoDropFault}
    \cup {[at |-> k, query |-> TRUE, pos |-> 0] : k \in 1..Len(values)}
    \cup {[at |-> k, query |-> FALSE, pos |-> p] : k \in 1..Len(values), p \in 1..3}

\* The databases the direct calls start from: what AutoMigrate leaves for
\* the models of a list.
Migrated(values) ==
    ApplyAll(EmptyDb, << StmtSetSequenceKind >>
                      \o SeqConcat([k \in 1..Len(values) |->
                                      CreateTable(ModelDef(values[k]))])).live

\* The migrated database with the table concerts of
\* TestAutoMigrate_CreateDataModel, which has an index on two columns.
ConcertsDb ==
    ApplyAll(Migrated(<<"Singer", "Album">>),
             << StmtCreateTable("concerts",
                                <<"id", "deleted_at", "singer_id",
                                  "start_time", "end_time">>,
                                {MkConstraint(PkName("concerts"), "concerts",
                                              "PRIMARY KEY", {"id"}, ""),
                                 MkConstraint(FkName("concerts", "Singer"),
                                              "concerts", "FOREIGN KEY",
                                              {"singer_id"}, "singers")}),
                StmtCreateIndex("concerts",
                                MkIndex(IndexName("concerts", "time"),
                                        <<"start_time", "end_time">>, FALSE)),
                StmtCreateIndex("concerts",
                                MkIndex(IndexName("concerts", "deleted_at"),
                                        <<"deleted_at">>, FALSE)) >>).live

\* The fully migrated database to which another client has added UNIQUE
\* constraints: one of one column on bs, one of two columns on albums, and
\* on singers one of one column and one of two that share a column.
UniqueDb ==
    [Migrated(<<"Singer", "Album", "Bs">>) EXCEPT !.constraints = @ \cup
       { MkConstraint(UniqueName("bs", "sha256"), "bs", "UNIQUE", {"sha256"}, ""),
         MkConstraint(UniqueName("albums", "singer_id"), "albums", "UNIQUE",
                      {"id", "singer_id"}, ""),
         MkConstraint(UniqueName("singers", "deleted_at"), "singers", "UNIQUE",
                      {"deleted_at"}, ""),
         MkConstraint(UniqueName("singers", "id"), "singers", "UNIQUE",
                      {"id", "deleted_at"}, "") }]

SampleDbs ==
    { EmptyDb, Migrated(<<"Singer", "Album">>),
      Migrated(<<"Singer", "Album", "Bs">>), ConcertsDb }

InitOps ==
    /\ live \in SampleDbs \cup {UniqueDb}
    /\ conn = [m \in Migrators |-> NoBatch]
    /\ cfg = [m \in Migrators |-> FALSE]
    /\ call = [m \in Migrators |-> IdleCall]
    /\ last = [valid |-> FALSE]
    /\ ncalls = 0
    /\ nfaults = 0
    /\ op = NoOp
    /\ handle = "open"
    /\ bound = [m \in Migrators |-> Migrator(SqlDB, FALSE, FALSE, "c1")]
    /\ autoAddPrimaryKey \in BOOLEAN
    /\ schemas = ParsedSchemas

\* The same, through a database handle that may have been closed
\* (sqlDb.Close()) before the migrator was asked for.
InitMigrated ==
    /\ live \in SampleDbs
    /\ conn = [m \in Migrators |-> NoBatch]
    /\ cfg = [m \in Migrators |-> FALSE]
    /\ call = [m \in Migrators |-> IdleCall]
    /\ last = [valid |-> FALSE]
    /\ ncalls = 0
    /\ nfaults = 0
    /\ op = NoOp
    /\ handle \in {"open", "closed"}
    /\ bound = [m \in Migrators |-> Migrator(SqlDB, FALSE, handle = "closed", "c1")]
    /\ autoAddPrimaryKey = FALSE
    /\ schemas = ParsedSchemas

\* The names the introspection methods are asked about: those of the fully
\* migrated sample database.
ColumnNames == {p[2] : p \in Migrated(<<"Singer", "Album", "Bs">>).columns}
IndexNames == {i.name : i \in Migrated(<<"Singer", "Album", "Bs">>).indexes}
ConstraintNames == {c.name : c \in Migrated(<<"Singer", "Album", "Bs">>).constraints}

\* What a Has... method hands back: a bool and nothing else.  present keeps
\* what the catalog really holds.
Answer(method, t, name, qerr, present, result) ==
    [method |-> method, table |-> t, name |-> name, qerr |-> qerr,
     present |-> present, result |-> result]

\* db.Migrator().HasTable(value)
HasTableCall ==
    /\ op = NoOp
    /\ \E t \in Tables, qerr \in BOOLEAN :
         op' = Answer("HasTable", t, t, qerr, HasTable(live, t, FALSE),
                      HasTable(live, t, qerr))
    /\ UNCHANGED <<live, conn, cfg, call, last, ncalls, nfaults, handle, bound,
               autoAddPrimaryKey, schemas>>

\* db.Migrator().HasColumn(value, field)
HasColumnCall ==
    /\ op = NoOp
    /\ \E t \in Tables, c \in ColumnNames, qerr \in BOOLEAN :
         op' = Answer("HasColumn", t, c, qerr, HasColumn(live, t, c, FALSE),
                      HasColumn(live, t, c, qerr))
    /\ UNCHANGED <<live, conn, cfg, call, last, ncalls, nfaults, handle, bound,
               autoAddPrimaryKey, schemas>>

\* db.Migrator().HasIndex(value, name)
HasIndexCall ==
    /\ op = NoOp
    /\ \E t \in Tables, n \in IndexNames, qerr \in BOOLEAN :
         op' = Answer("HasIndex", t, n, qerr, HasIndex(live, t, n, FALSE),
                      HasIndex(live, t, n, qerr))
    /\ UNCHANGED <<live, conn, cfg, call, last, ncalls, nfaults, handle, bound,
               autoAddPrimaryKey, schemas>>

\* db.Migrator().HasConstraint(value, name)
HasConstraintCall ==
    /\ op = NoOp
    /\ \E t \in Tables, n \in ConstraintNames, qerr \in BOOLEAN :
         op' = Answer("HasConstraint", t, n, qerr, HasConstraint(live, t, n, FALSE),
                      HasConstraint(live, t, n, qerr))
    /\ UNCHANGED <<live, conn, cfg, call, last, ncalls, nfaults, handle, bound,
               autoAddPrimaryKey, schemas>>

\* The argument lists CreateTable is called with.
CreateLists ==
    {<<n>> : n \in SchemaModels} \cup { <<"Log", "Event">>, <<"Draft", "User">> }

\* db.Migrator().CreateTable(values...), up to MaxCreates times in a row on
\* the same gorm.DB.
CreateTableCall ==
    /\ op.method \in {"none", "CreateTable"}
    /\ op.method = "CreateTable" => op.calls < MaxCreates
    /\ \E values \in CreateLists :
       \E r \in {CreateTableValues(autoAddPrimaryKey, schemas, live, values)} :
          /\ op' = [method |-> "CreateTable", values |-> values,
                    before |-> schemas, executed |-> r.executed, err |-> r.err,
                    calls |-> IF op.method = "none" THEN 1 ELSE op.calls + 1]
          /\ schemas' = r.schemas
          /\ live' = r.live
    /\ UNCHANGED <<conn, cfg, call, last, ncalls, nfaults, handle, bound,
                   autoAddPrimaryKey>>

\* db.Migrator().ColumnTypes(value), on a database as it was found or as
\* CreateTable left it.
ColumnTypesCall ==
    /\ op.method \in {"none", "CreateTable"}
    /\ \E t \in Tables \cup {"logs", "drafts"}, qerr \in BOOLEAN :
         op' = [method |-> "ColumnTypes", table |-> t, qerr |-> qerr,
                columns |-> IF qerr THEN {} ELSE ColumnTypes(live, t),
                err |-> IF qerr THEN ErrUnavailable ELSE NoErr]
    /\ UNCHANGED <<live, conn, cfg, call, last, ncalls, nfaults, handle, bound,
               autoAddPrimaryKey, schemas>>

\* db.Migrator(), followed by the first statements of an AutoMigrate call on
\* the migrator it returned: the count query, START BATCH DDL and the first
\* DDL statement.
MigratorCall ==
    /\ op = NoOp
    /\ \E connPool \in {SqlDB} \cup {SqlConn(c) : c \in ConnIds},
          dbErr \in BOOLEAN, connErr \in BOOLEAN, fresh \in ConnIds :
       \E mig \in {Migrator(connPool, dbErr, connErr, fresh)} :
       \E handedOut \in [1..3 -> ConnIds] :
          op' = [method |-> "Migrator", connPool |-> connPool,
                 dbErr |-> dbErr, connErr |-> connErr, migrator |-> mig,
                 used |-> [k \in 1..3 |-> ConnOf(mig, handedOut[k])]]
    /\ UNCHANGED <<live, conn, cfg, call, last, ncalls, nfaults, handle, bound,
               autoAddPrimaryKey, schemas>>

\* db.Migrator().GetIndexes(table)
GetIndexesCall ==
    /\ op = NoOp
    /\ \E t \in Tables \cup live.tables, qerr \in BOOLEAN :
       \E rows \in {indexSql(live, t)} :
       \E visit \in MapOrders(groupByIndexName(rows)) :
       \E r \in {GetIndexes(rows, visit, qerr)} :
          op' = [method |-> "GetIndexes", table |-> t, qerr |-> qerr,
                 rows |-> rows, indexes |-> r.indexes, err |-> r.err]
    /\ UNCHANGED <<live, conn, cfg, call, last, ncalls, nfaults, handle, bound,
               autoAddPrimaryKey, schemas>>

\* db.Migrator().DropTable(values...)
DropTableCall(m) ==
    /\ op = NoOp
    /\ \E values \in DropLists :
       \E f \in DropFaults(values) :
       \E r \in {DropTable(conn[m], live, values, f)} :
          /\ f.at = 0 \/ r.err = ErrUnavailable
          /\ op' = [method |-> "DropTable", values |-> values, pre |-> live,
                    executed |-> r.executed, err |-> r.err, fault |-> f]
          /\ live' = r.live
          /\ conn' = [conn EXCEPT ![m] = r.conn]
    /\ UNCHANGED <<cfg, call, last, ncalls, nfaults, handle, bound,
               autoAddPrimaryKey, schemas>>

\* db.Migrator().AlterColumn(value, field): the statements are executed one
\* by one; xf is the position of the statement whose Exec fails (0: none).
AlterColumnCall ==
    /\ op = NoOp
    /\ \E field \in Fields \cup {NoField, NilSchema, ParseFailed},
          col \in Columns \cup {NoColumn},
          qgen \in BOOLEAN, qcols \in BOOLEAN :
         \E r \in {AlterColumn("singers", field, col, qgen, qcols)} :
         \E xf \in 0..Len(r.stmts) :
            op' = [method |-> "AlterColumn", field |-> field, col |-> col,
                   qgen |-> qgen, qcols |-> qcols,
                   executed |-> IF xf = 0 THEN r.stmts ELSE Take(r.stmts, xf),
                   err |-> IF xf = 0 THEN r.err ELSE ErrUnavailable]
    /\ UNCHANGED <<live, conn, cfg, call, last, ncalls, nfaults, handle, bound,
               autoAddPrimaryKey, schemas>>

\* The fields and live column types MigrateColumn is called with: the
\* column sha256 of bs, declared and found with or without the primary key
\* and unique flags.
MigratedFields ==
    {MkField("sha256", ty, pk, uq) :
       ty \in {"string", "int"}, pk \in BOOLEAN, uq \in BOOLEAN}

MigratedColumns ==
    {[name |-> "sha256", primaryKeyValid |-> TRUE, uniqueValid |-> TRUE,
      primaryKey |-> pk, unique |-> uq] : pk \in BOOLEAN, uq \in BOOLEAN}

\* db.Migrator().MigrateColumn(value, field, columnType): the statements are
\* executed one by one; xf is the position of the statement whose Exec fails.
MigrateColumnCall ==
    /\ op = NoOp
    /\ \E field \in MigratedFields, col \in MigratedColumns :
         \E stmts \in {MigrateColumn("bs", field, col)} :
         \E xf \in 0..Len(stmts) :
            op' = [method |-> "MigrateColumn", field |-> field, col |-> col,
                   executed |-> IF xf = 0 THEN stmts ELSE Take(stmts, xf),
                   err |-> IF xf = 0 THEN NoErr ELSE ErrUnavailable]
    /\ UNCHANGED <<live, conn, cfg, call, last, ncalls, nfaults, handle, bound,
               autoAddPrimaryKey, schemas>>

NextOps ==
    \/ MigratorCall
    \/ HasTableCall
    \/ HasColumnCall
    \/ HasIndexCall
    \/ HasConstraintCall
    \/ ColumnTypesCall
    \/ CreateTableCall
    \/ GetIndexesCall
    \/ AlterColumnCall
    \/ MigrateColumnCall
    \/ \E m \in Migrators : DropTableCall(m)

SpecOps == InitOps /\ [][NextOps]_vars

\* AutoMigrate and AutoMigrateDryRun called on a database that may already
\* have been migrated, through a handle that may be closed.
SpecMigrated == InitMigrated /\ [][Next]_vars

-----------------------------------------------------------------------------
(* Two goroutines, each with the migrator of a db.Migrator() call of its    *)
(* own on one gorm.DB, call AutoMigrate and AutoMigrateDryRun without       *)
(* waiting for each other.                                                   *)

Callers == {"m1", "m2"}

ConcurrentLists == { <<"As">>, <<"Album", "Singer">> }

\* The connection sqlDB.Conn hands to the Migrator() call of caller m: a
\* connection is handed out to one owner at a time.
FreshConn(m) == IF m = "m1" THEN "c1" ELSE "c2"

InitConcurrent ==
    /\ live = EmptyDb
    /\ conn = [m \in Callers |-> NoBatch]
    /\ cfg \in {[m \in Callers |-> b] : b \in BOOLEAN}
    /\ call = [m \in Callers |-> IdleCall]
    /\ last = [valid |-> FALSE]
    /\ ncalls = 0
    /\ nfaults = 0
    /\ op = NoOp
    /\ handle = "open"
    /\ bound \in {[m \in Callers |-> Migrator(SqlDB, FALSE, connErr[m], FreshConn(m))] :
                    connErr \in [Callers -> BOOLEAN]}
    /\ autoAddPrimaryKey = FALSE
    /\ schemas = ParsedSchemas

\* A caller begins a call when its own last call has returned.
ConcurrentBegin(m) ==
    /\ call[m].pc \in {"idle", "done"}
    /\ Begin(m, ConcurrentLists)

NextConcurrent ==
    \/ \E m \in Callers : ConcurrentBegin(m)
    \/ \E m \in Callers : StartBatchDDL(m)
    \/ \E m \in Callers : SetDefaultSequenceKind(m)
    \/ \E m \in Callers : MigrateModel(m)
    \/ \E m \in Callers : Finish(m)

SpecConcurrent == InitConcurrent /\ [][NextConcurrent]_vars

-----------------------------------------------------------------------------
(* Vocabulary of the properties.                                             *)

Issued(cl, c) == \E k \in 1..Len(cl.cmds) : cl.cmds[k].cmd = c

CountIssued(cl, c) == Cardinality({k \in 1..Len(cl.cmds) : cl.cmds[k].cmd = c})

OneByOne(stmts) == [k \in 1..Len(stmts) |-> << stmts[k] >>]

\* The schema proper, without the database options.
Schema(db) ==
    [tables |-> db.tables, columns |-> db.columns, indexes |-> db.indexes,
     constraints |-> db.constraints]

\* The part of the database that belongs to table t.
OnlyTable(db, t) ==
    [tables |-> db.tables \cap {t},
     columns |-> {p \in db.columns : p[1] = t},
     indexes |-> {i \in db.indexes : i.table = t},
     constraints |-> {c \in db.constraints : c.table = t},
     seqKind |-> db.seqKind]

\* The call follows a successful AutoMigrate of the same models, and starts
\* from the schema that call left.
RepeatsSuccessfulMigration(cl) ==
    /\ cl.prev.valid
    /\ ~cl.prev.dryRun
    /\ cl.prev.err = NoErr
    /\ cl.prev.values = cl.values
    /\ cl.pre = cl.prev.post

-----------------------------------------------------------------------------
C2_DryRunNeverCommits ==
    \A m \in Migrators :
        call[m].dryRun =>
            /\ ~Issued(call[m], "RUN BATCH")
            /\ call[m].reqs = << >>
            /\ call[m].pc \in {"seqkind", "migrate", "finish"}
                  => /\ conn[m].active
                     /\ call[m].cmds[1] = CmdStart
                     /\ live = call[m].pre
            /\ call[m].pc = "done"
                  => /\ call[m].post = call[m].pre
                     /\ call[m].generated # << >> => call[m].cmds[1] = CmdStart

C2_Witness ==
    \E m \in Migrators :
        /\ cfg[m]
        /\ call[m].dryRun
        /\ call[m].pc = "done"
        /\ call[m].err = NoErr
        /\ Len(call[m].statements) >= 2
        /\ call[m].post = call[m].pre
        /\ ~call[m].pre.seqKind

\* C3: a call that started a DDL batch leaves no batch active when it
\* returns.  RUN BATCH is issued at most once, only by a non-dry-run call
\* whose base migration succeeded, and the database only changes when that
\* RUN BATCH succeeds; every call that started a batch ends with ABORT BATCH.
C3_NoBatchLeftActive ==
    \A m \in Migrators :
        (call[m].pc = "done" /\ Issued(call[m], "START BATCH DDL")) =>
            /\ ~conn[m].active
            /\ CountIssued(call[m], "START BATCH DDL") = 1
            /\ CountIssued(call[m], "RUN BATCH") <= 1
            /\ Issued(call[m], "RUN BATCH")
                  => /\ ~call[m].dryRun
                     /\ call[m].i > Len(call[m].order)
                     /\ call[m].failed \in {"", "run"}
            /\ call[m].post # call[m].pre
                  => /\ Issued(call[m], "RUN BATCH")
                     /\ call[m].err = NoErr
            /\ call[m].deferred
                  => call[m].cmds[Len(call[m].cmds)] = CmdAbort
            /\ ~call[m].deferred => call[m].failed = "start"

C3_Witness ==
    \E m \in Migrators :
        /\ call[m].pc = "done"
        /\ call[m].deferred
        /\ call[m].failed = "exec"
        /\ Len(call[m].generated) >= 2
        /\ ~conn[m].active
        /\ ~Issued(call[m], "RUN BATCH")

\* C4: with batching enabled, a successful non-dry-run AutoMigrate sends all
\* generated statements in one request, made by one RUN BATCH, and until that
\* RUN BATCH nothing reaches the database.
C4_OneRequestPerMigration ==
    \A m \in Migrators :
        (~cfg[m] /\ ~call[m].dryRun) =>
            /\ call[m].pc \in {"seqkind", "migrate", "finish"}
                  => /\ call[m].reqs = << >>
                     /\ live = call[m].pre
            /\ (call[m].pc = "done" /\ call[m].err = NoErr)
                  => /\ CountIssued(call[m], "RUN BATCH") = 1
                     /\ call[m].reqs = IF call[m].generated = << >> THEN << >>
                                       ELSE << call[m].generated >>
                     /\ call[m].post = ApplyAll(call[m].pre, call[m].generated).live

C4_Witness ==
    \E m \in Migrators :
        /\ ~cfg[m] /\ ~call[m].dryRun
        /\ call[m].pc = "done" /\ call[m].err = NoErr
        /\ Len(call[m].reqs) = 1
        /\ Len(call[m].reqs[1]) >= 4
        /\ call[m].post # call[m].pre

\* C5: the statements reach the database in the order of their generation,
\* none dropped, none duplicated: the batch (and the list a dry run returns)
\* is the generated sequence, and unbatched execution sends it one by one.
C5_GenerationOrderKept ==
    \A m \in Migrators :
        /\ call[m].pc \in {"migrate", "finish"} /\ conn[m].active
              => conn[m].batch = call[m].generated
        /\ (call[m].pc = "done" /\ call[m].dryRun /\ call[m].err = NoErr)
              => call[m].statements = call[m].generated
        /\ (call[m].pc = "done" /\ Issued(call[m], "RUN BATCH") /\ ~call[m].fault)
              => call[m].reqs = IF call[m].generated = << >> THEN << >>
                                ELSE << call[m].generated >>
        /\ (call[m].pc # "idle" /\ ~UsesBatch(call[m].dryRun, cfg[m]))
              => call[m].reqs = OneByOne(call[m].generated)

C5_Witness ==
    \E m \in Migrators :
        /\ call[m].pc = "done"
        /\ cfg[m] /\ ~call[m].dryRun
        /\ call[m].err = NoErr
        /\ Len(call[m].reqs) >= 4
        /\ call[m].reqs = OneByOne(call[m].generated)
        /\ call[m].reqs[1] = << StmtSetSequenceKind >>

\* C6: with DisableAutoMigrateBatching set, a non-dry-run AutoMigrate issues
\* no START BATCH DDL, RUN BATCH or ABORT BATCH: its commands are the
\* generated statements, each sent as a request of its own, and when none of
\* them fails the call returns nil.
C6_UnbatchedOneRequestPerStatement ==
    \A m \in Migrators :
        (cfg[m] /\ ~call[m].dryRun /\ call[m].pc # "idle") =>
            /\ call[m].cmds = [k \in 1..Len(call[m].generated) |->
                                  CmdExec(call[m].generated[k])]
            /\ ~conn[m].active
            /\ Len(call[m].reqs) = Len(call[m].generated)
            /\ \A k \in 1..Len(call[m].reqs) : call[m].reqs[k] = << call[m].generated[k] >>
            /\ (call[m].pc = "done" /\ call[m].failed = "")
                  => /\ call[m].err = NoErr
                     /\ call[m].statements = << >>
                     /\ call[m].i > Len(call[m].order)
                     /\ call[m].post = ApplyAll(call[m].pre, call[m].generated).live

C6_Witness ==
    \E m \in Migrators :
        /\ cfg[m] /\ ~call[m].dryRun
        /\ call[m].pc = "done"
        /\ call[m].values = <<"As", "Bs">>
        /\ call[m].err = NoErr
        /\ Len(call[m].generated) = 4
        /\ Len(call[m].reqs) = 4
        /\ ~Issued(call[m], "START BATCH DDL")
        /\ ~Issued(call[m], "ABORT BATCH")

\* C7: with batching disabled, when the k-th generated statement fails the
\* call returns the error of that statement, statements 1..k-1 stay applied,
\* and the k-th is the last command of the call; a failing statement is never
\* passed over.
C7_UnbatchedFailureKeepsPrefix ==
    \A m \in Migrators :
        (cfg[m] /\ ~call[m].dryRun /\ call[m].pc = "done") =>
            /\ call[m].failed \in {"seqkind", "exec"} =>
                  LET k == Len(call[m].generated)
                      before == ApplyAll(call[m].pre, Take(call[m].generated, k - 1))
                  IN  /\ k >= 1
                      /\ before.err = NoErr
                      /\ call[m].post = before.live
                      /\ call[m].err # NoErr
                      /\ call[m].err =
                            IF call[m].fault THEN ErrUnavailable
                            ELSE ApplyStatement(before.live, call[m].generated[k]).err
                      /\ Len(call[m].cmds) = k
                      /\ call[m].cmds[k] = CmdExec(call[m].generated[k])
                      /\ Len(call[m].reqs) = k
            /\ call[m].err = NoErr
                  => /\ ~call[m].fault
                     /\ ApplyAll(call[m].pre, call[m].generated).err = NoErr

C7_Witness ==
    \E m \in Migrators :
        /\ cfg[m] /\ ~call[m].dryRun
        /\ call[m].pc = "done"
        /\ call[m].failed = "exec"
        /\ call[m].values = <<"As", "Bs">>
        /\ Len(call[m].generated) = 3
        /\ call[m].err = ErrUnavailable
        /\ "as" \in call[m].post.tables
        /\ "as" \notin call[m].pre.tables
        /\ "bs" \notin call[m].post.tables

\* C8: with a batch in effect, when the sequence-kind statement, the base
\* migration or RUN BATCH fails, the call returns the error of that step,
\* the batch is gone from the connection, the call ends with ABORT BATCH and
\* the database is as it was before the call; and a call that returns nil
\* had no failing step.
C8_BatchedFailureReturnsError ==
    \A m \in Migrators :
        (call[m].pc = "done" /\ call[m].deferred) =>
            /\ call[m].failed \in {"seqkind", "plan", "exec", "run"} =>
                  /\ call[m].err # NoErr
                  /\ call[m].err = call[m].raised
                  /\ call[m].err =
                        IF call[m].failed = "run" /\ ~call[m].fault
                        THEN ApplyAll(call[m].pre, call[m].generated).err
                        ELSE ErrUnavailable
                  /\ ~conn[m].active
                  /\ call[m].cmds[Len(call[m].cmds)] = CmdAbort
                  /\ call[m].post = call[m].pre
            /\ (call[m].err = NoErr /\ ~call[m].dryRun)
                  => /\ call[m].failed = ""
                     /\ ApplyAll(call[m].pre, call[m].generated).err = NoErr

C8_Witness ==
    \E m \in Migrators :
        /\ call[m].pc = "done"
        /\ call[m].deferred
        /\ call[m].failed = "run"
        /\ ~call[m].fault
        /\ call[m].err = ErrAlreadyExists
        /\ Len(call[m].generated) >= 1
        /\ call[m].post = call[m].pre
        /\ ~conn[m].active

C10_UniqueConstraintRejected ==
    \A m \in Migrators :
        (/\ call[m].pc = "done"
         /\ call[m].values = <<"AsU">>
         /\ ~call[m].dryRun
         /\ "as" \notin call[m].pre.tables
         /\ ~call[m].qfault /\ ~call[m].fault)
        => /\ call[m].err = ErrUniqueNotSupported
           /\ "as" \notin call[m].post.tables
           /\ Schema(call[m].post) = Schema(call[m].pre)
           /\ ~cfg[m] => call[m].post = call[m].pre
           /\ (/\ call[m].prev.valid
               /\ call[m].prev.values = call[m].values
               /\ ~call[m].prev.dryRun
               /\ call[m].prev.err \notin {NoErr, ErrUnavailable})
              => call[m].err = call[m].prev.err

C10_Witness ==
    \E m \in Migrators :
        /\ call[m].pc = "done"
        /\ call[m].values = <<"AsU">>
        /\ ~call[m].dryRun
        /\ ~call[m].qfault /\ ~call[m].fault
        /\ call[m].prev.valid
        /\ call[m].prev.values = <<"AsU">>
        /\ ~call[m].prev.dryRun
        /\ call[m].prev.err = ErrUniqueNotSupported
        /\ call[m].err = ErrUniqueNotSupported
        /\ call[m].pre = EmptyDb
        /\ call[m].post = EmptyDb

\* C11: generated-column immutability.  AlterColumn on a column that the
\* catalog holds with a generation expression executes no statement and
\* returns nil, whatever type, nullability and default the field declares
\* (the "(-)" default included).
C11_GeneratedColumnUntouched ==
    (/\ op.method = "AlterColumn"
     /\ op.col.present
     /\ op.col.generated)
    => /\ op.executed = << >>
       /\ op.err = NoErr

\* The same when the generated-column lookup is answered: the early return
\* of AlterColumn is taken for every declared field.
C11_GeneratedColumnUntouchedWhenAnswered ==
    (/\ op.method = "AlterColumn"
     /\ op.field.schema = "parsed"
     /\ op.col.present
     /\ op.col.generated
     /\ ~op.qgen)
    => /\ op.executed = << >>
       /\ op.err = NoErr

\* The positions of the CREATE TABLE statements of table t in stmts.
CreatesOf(stmts, t) ==
    {k \in 1..Len(stmts) : stmts[k].op = "CreateTable" /\ stmts[k].table = t}

\* The tables the CREATE TABLE statement s references through a foreign key.
ReferencedBy(s) ==
    {c.refTable : c \in {c \in s.constraints : c.type = "FOREIGN KEY"}}

\* C12: parent before child.  In the DDL one AutoMigrate call generates, a
\* CREATE TABLE that carries a foreign key comes strictly after every CREATE
\* TABLE of the table it references, and the referenced table either existed
\* when the call began or is created earlier in the same call, whatever the
\* order the models were passed in.
C12_ParentCreatedBeforeChild ==
    \A m \in Migrators :
      \A i \in 1..Len(call[m].generated) :
        call[m].generated[i].op = "CreateTable" =>
          \A p \in ReferencedBy(call[m].generated[i]) :
            /\ \A j \in CreatesOf(call[m].generated, p) : j < i
            /\ \/ p \in call[m].pre.tables
               \/ CreatesOf(call[m].generated, p) # {}

C12_Witness ==
    \E m \in Migrators :
      /\ call[m].pc = "done"
      /\ call[m].err = NoErr
      /\ ~call[m].dryRun
      /\ call[m].values = <<"Album", "Singer">>
      /\ call[m].pre.tables = {}
      /\ CreatesOf(call[m].generated, "singers") # {}
      /\ \E i \in CreatesOf(call[m].generated, "albums") :
           "singers" \in ReferencedBy(call[m].generated[i])
      /\ {"singers", "albums"} \subseteq live.tables

\* The positions of the DROP TABLE statements of table t in stmts.
DropsOf(stmts, t) ==
    {k \in 1..Len(stmts) : stmts[k].op = "DropTable" /\ stmts[k].table = t}

\* C13: child dropped before parent.  When DropTable is called with a child
\* and its parent, in whatever order, every DROP TABLE of the child is
\* executed before the DROP TABLE of the parent, and the parent's DROP TABLE
\* is never executed without the child's.
C13_ChildDroppedBeforeParent ==
    op.method = "DropTable" =>
      \A c \in Range(op.values) :
        (ModelDef(c).parent # "" /\ ModelDef(c).parent \in Range(op.values)) =>
          \A j \in DropsOf(op.executed, ModelDef(ModelDef(c).parent).table) :
            /\ DropsOf(op.executed, ModelDef(c).table) # {}
            /\ \A i \in DropsOf(op.executed, ModelDef(c).table) : i < j

C13_Witness ==
    /\ op.method = "DropTable"
    /\ op.values = <<"Singer", "Album">>
    /\ op.err = NoErr
    /\ {"singers", "albums"} \subseteq op.pre.tables
    /\ DropsOf(op.executed, "albums") # {}
    /\ DropsOf(op.executed, "singers") # {}
    /\ live.tables \cap {"singers", "albums"} = {}

\* Call cl is a successful dry run that follows a successful dry run of the
\* same models, with the live schema as the earlier dry run left it.
RepeatsDryRun(cl) ==
    /\ cl.pc = "done"
    /\ cl.dryRun
    /\ cl.err = NoErr
    /\ cl.prev.valid
    /\ cl.prev.dryRun
    /\ cl.prev.err = NoErr
    /\ cl.prev.values = cl.values
    /\ cl.pre = cl.prev.post

\* C14: dry-run determinism.  Two successive AutoMigrateDryRun calls with the
\* same models against an unchanged live schema return equal statement lists.
C14_DryRunDeterministic ==
    \A m \in Migrators :
      RepeatsDryRun(call[m]) => call[m].statements = call[m].prev.statements

\* The same for calls whose catalog queries are all answered.
C14_DryRunDeterministicWhenAnswered ==
    \A m \in Migrators :
      (RepeatsDryRun(call[m]) /\ ~call[m].qfault /\ nfaults = 0)
         => call[m].statements = call[m].prev.statements

\* The table a DDL statement belongs to ("" for a database-level statement).
TableOf(s) ==
    CASE s.op = "AlterDatabase" -> ""
      [] s.op = "AddConstraint" -> s.constraint.table
      [] OTHER -> s.table

\* The positions of the CREATE INDEX statements of table t in stmts.
IndexesOf(stmts, t) ==
    {k \in 1..Len(stmts) : stmts[k].op = "CreateIndex" /\ stmts[k].table = t}

\* The statements of one table are next to each other in stmts.
Grouped(stmts) ==
    \A i \in 1..Len(stmts) : \A k \in i..Len(stmts) :
      TableOf(stmts[i]) = TableOf(stmts[k]) =>
        \A j \in i..k : TableOf(stmts[j]) = TableOf(stmts[i])

\* Model n is created in full by stmts: one CREATE TABLE, followed by one
\* CREATE INDEX per declared index.
CreatedInFull(stmts, n) ==
    /\ Cardinality(CreatesOf(stmts, ModelDef(n).table)) = 1
    /\ Cardinality(IndexesOf(stmts, ModelDef(n).table)) = Len(ModelDef(n).indexes)
    /\ \A x \in 1..Len(ModelDef(n).indexes) :
         \E k \in IndexesOf(stmts, ModelDef(n).table) :
           stmts[k].name = ModelDef(n).indexes[x].name

\* C15: statement order on table creation.  The statements one call generates
\* are grouped by table; the CREATE INDEX statements of a table created in
\* the call come after its CREATE TABLE; and a call that succeeds creates
\* every model whose table was absent with one CREATE TABLE and one CREATE
\* INDEX per declared index.
C15_CreateOrderPerTable ==
    \A m \in Migrators :
      /\ Grouped(call[m].generated)
      /\ \A t \in Tables :
           \A i \in CreatesOf(call[m].generated, t) :
             \A k \in IndexesOf(call[m].generated, t) : i < k
      /\ (call[m].pc = "done" /\ call[m].err = NoErr) =>
           \A n \in Range(call[m].order) :
             ModelDef(n).table \notin call[m].pre.tables =>
               CreatedInFull(call[m].generated, n)

C15_Witness ==
    \E m \in Migrators :
      /\ call[m].pc = "done"
      /\ call[m].err = NoErr
      /\ call[m].dryRun
      /\ call[m].pre.tables = {}
      /\ call[m].order = <<"Singer", "Album">>
      /\ Len(call[m].statements) = 4
      /\ call[m].statements[2].op = "CreateTable"
      /\ call[m].statements[2].table = "singers"
      /\ call[m].statements[3].op = "CreateIndex"
      /\ call[m].statements[3].table = "singers"
      /\ call[m].statements[4].op = "CreateTable"
      /\ call[m].statements[4].table = "albums"

HasMethods == {"HasTable", "HasColumn", "HasIndex", "HasConstraint"}

\* C16: introspection keeps "does not exist" and "query failed" apart.  A
\* Has... method answers false only for an object the catalog does not hold,
\* never for a catalog query that failed; and AlterColumn, when its
\* generated-column lookup or its column lookup fails, hands that failure to
\* the caller before any statement is executed.
C16_QueryFailureDistinguishable ==
    /\ op.method \in HasMethods => (~op.result => (~op.qerr /\ ~op.present))
    /\ op.method = "AlterColumn" =>
         ((op.qgen \/ op.qcols) =>
             (op.err = ErrUnavailable /\ op.executed = << >>))

\* The part of C16 the methods do satisfy: with the query answered, a missing
\* object is reported as absent and an existing one as present.
C16_AnsweredQueryIsExact ==
    (op.method \in HasMethods /\ ~op.qerr) => op.result = op.present

\* The non-managed indexes of table t in the catalog.
CatalogIndexes(db, t) ==
    {i \in IndexesView(db) : ~i.spanner_is_managed /\ i.table_name = t}

\* C17: GetIndexes(table) returns exactly one entry per non-managed index of
\* the table, the primary-key index included, each with its columns in
\* ordinal-position order, and the entries come in a fixed order (that of the
\* query, by index name) with the primary-key index first.
C17_IndexesCompleteAndOrdered ==
    (op.method = "GetIndexes" /\ op.err = NoErr) =>
      /\ Len(op.indexes) = Cardinality(CatalogIndexes(live, op.table))
      /\ \A i \in CatalogIndexes(live, op.table) :
           \E k \in 1..Len(op.indexes) :
             /\ op.indexes[k].name = i.index_name
             /\ op.indexes[k].columns = i.columns
             /\ op.indexes[k].primaryKey = (i.index_type = "PRIMARY_KEY")
      /\ \A k \in 1..Len(op.indexes) :
           op.indexes[k].name = SelectedIndexes(live, op.table)[k].index_name
      /\ op.indexes # << >> => op.indexes[1].primaryKey

\* The part of C17 that GetIndexes satisfies: one entry per non-managed
\* index, with the columns in ordinal-position order.
C17_OneEntryPerIndex ==
    (op.method = "GetIndexes" /\ op.err = NoErr) =>
      /\ Len(op.indexes) = Cardinality(CatalogIndexes(live, op.table))
      /\ \A i \in CatalogIndexes(live, op.table) :
           \E k \in 1..Len(op.indexes) :
             /\ op.indexes[k].name = i.index_name
             /\ op.indexes[k].columns = i.columns
             /\ op.indexes[k].primaryKey = (i.index_type = "PRIMARY_KEY")

\* C19: no connection, no DDL.  An AutoMigrate or AutoMigrateDryRun call made
\* through a closed database handle, and any call whose initial count query
\* of default_sequence_kind fails, returns an error without having started a
\* DDL batch, issued any command on the connection, generated any DDL
\* statement or changed the database.
C19_NoConnectionNoDdl ==
    \A m \in Migrators :
      (/\ call[m].pc = "done"
       /\ handle = "closed" \/ call[m].failed = "count")
      => /\ call[m].err # NoErr
         /\ ~Issued(call[m], "START BATCH DDL")
         /\ call[m].cmds = << >>
         /\ call[m].generated = << >>
         /\ call[m].reqs = << >>
         /\ call[m].statements = << >>
         /\ call[m].post = call[m].pre
         /\ ~conn[m].active

C19_Witness ==
    \E m \in Migrators :
      /\ handle = "closed"
      /\ call[m].pc = "done"
      /\ call[m].values = <<"Album", "Singer">>
      /\ ~call[m].dryRun
      /\ call[m].err # NoErr
      /\ call[m].cmds = << >>
      /\ ncalls = 2

\* C18: one connection per migration.  The statements a migrator executes
\* (the catalog queries, START BATCH DDL, the DDL statements, RUN BATCH and
\* ABORT BATCH) all run on one and the same connection, and a migrator made
\* from a DB that is bound to one connection works on that connection.
C18_OneConnection ==
    op.method = "Migrator" =>
      /\ \A i \in 1..Len(op.used) : \A j \in 1..Len(op.used) :
           op.used[i] = op.used[j]
      /\ op.connPool.kind = "conn" => op.migrator = op.connPool

\* The same for a migrator that was given a connection: the DB was bound to
\* one, or db.DB() and sqlDB.Conn() succeeded.
C18_OneConnectionWhenObtained ==
    (/\ op.method = "Migrator"
     /\ op.connPool.kind = "conn" \/ (~op.dbErr /\ ~op.connErr))
    => /\ op.migrator.kind = "conn"
       /\ \A i \in 1..Len(op.used) : op.used[i] = op.migrator.id
       /\ op.connPool.kind = "conn" => op.migrator = op.connPool

-----------------------------------------------------------------------------
\* The call has handed the statement that sets default_sequence_kind to Exec.
SetsSequenceKind(cl) ==
    \E k \in 1..Len(cl.generated) : cl.generated[k] = StmtSetSequenceKind

\* The call got past the option count and the batch decision.
PastBatchDecision(cl) ==
    \/ cl.pc \in {"migrate", "finish"}
    \/ cl.pc = "done" /\ cl.failed \notin {"count", "start"}

\* C20: the default sequence kind.  A call of autoMigrate that got past the
\* option count and the batch decision has emitted the statement that sets
\* default_sequence_kind exactly if the catalog reported the option as not
\* set, and no call emits it earlier.  When emitted it is the first DDL
\* statement of the call and occurs once; with a batch in effect it follows
\* START BATCH DDL, is buffered as the first statement of the batch and is not
\* applied on its own; a successful dry run returns it as its first statement
\* and leaves the option unset; a successful batched migration sends it in
\* the one request of the batch.
C20_SequenceKindSetFirst ==
    \A m \in Migrators :
      /\ PastBatchDecision(call[m])
           => (SetsSequenceKind(call[m]) <=> ~call[m].pre.seqKind)
      /\ ~PastBatchDecision(call[m]) => ~SetsSequenceKind(call[m])
      /\ SetsSequenceKind(call[m]) =>
           /\ call[m].generated[1] = StmtSetSequenceKind
           /\ \A k \in 2..Len(call[m].generated) :
                 call[m].generated[k] # StmtSetSequenceKind
           /\ \A k \in 1..Len(call[m].cmds) :
                 call[m].cmds[k].cmd = "EXEC"
                 => \E j \in 1..k : call[m].cmds[j] = CmdExec(StmtSetSequenceKind)
           /\ call[m].deferred =>
                 /\ call[m].cmds[1] = CmdStart
                 /\ call[m].cmds[2] = CmdExec(StmtSetSequenceKind)
                 /\ call[m].pc \in {"migrate", "finish"} =>
                       /\ conn[m].active
                       /\ conn[m].batch[1] = StmtSetSequenceKind
                       /\ call[m].reqs = << >>
                       /\ ~live.seqKind
           /\ (call[m].pc = "done" /\ call[m].dryRun /\ call[m].err = NoErr) =>
                 /\ call[m].statements[1] = StmtSetSequenceKind
                 /\ call[m].reqs = << >>
                 /\ ~call[m].post.seqKind
                 /\ ~live.seqKind
           /\ (call[m].pc = "done" /\ ~call[m].dryRun /\ call[m].deferred
                /\ call[m].err = NoErr) =>
                 /\ call[m].reqs = << call[m].generated >>
                 /\ call[m].post.seqKind

\* A dry run on a database without the option returns the statement first,
\* ahead of the table and index statements, and the option is still unset.
C20_Witness ==
    \E m \in Migrators :
      /\ call[m].pc = "done"
      /\ call[m].dryRun
      /\ call[m].err = NoErr
      /\ call[m].values = <<"Album", "Singer">>
      /\ ~call[m].pre.seqKind
      /\ Len(call[m].statements) > 2
      /\ call[m].statements[1] = StmtSetSequenceKind
      /\ call[m].statements[2].op = "CreateTable"
      /\ ~live.seqKind

\* The option is set: a later call emits no such statement.
C20_WitnessOptionSet ==
    \E m \in Migrators :
      /\ call[m].pc = "done"
      /\ call[m].pre.seqKind
      /\ call[m].err = NoErr
      /\ call[m].generated # << >>
      /\ ~SetsSequenceKind(call[m])

-----------------------------------------------------------------------------
\* The statements of the default step among those AlterColumn handed to Exec.
DefaultStatements(o) ==
    IF o.field.declared /\ o.col.present
    THEN SubSeq(o.executed, BeforeDefault("singers", o.field, o.col) + 1,
                Len(o.executed))
    ELSE << >>

\* C21: the default step of AlterColumn.  A call on a column that is not
\* skipped as generated hands a SET DEFAULT or DROP DEFAULT statement to Exec
\* in its default step only if the default the catalog reports for the
\* column differs from the declared default of the field; with equal
\* defaults the step emits nothing.
C21_DefaultOnlyOnDrift ==
    (/\ op.method = "AlterColumn"
     /\ op.field.declared /\ op.col.present
     /\ op.col.defaultValue = op.field.defaultValue)
    => DefaultStatements(op) = << >>

\* The same for a field whose declared default gorm has parsed into a value
\* (DefaultValueInterface is not nil).
C21_DefaultOnlyOnDriftWhenParsed ==
    (/\ op.method = "AlterColumn"
     /\ op.field.declared /\ op.col.present
     /\ op.field.defaultInterface
     /\ op.col.defaultValue = op.field.defaultValue)
    => DefaultStatements(op) = << >>

-----------------------------------------------------------------------------
\* The call of AlterColumn got as far as comparing the field with the live
\* column: the field and the column were found and the call was not left
\* early for a generated column.
Compared(o) ==
    /\ o.method = "AlterColumn"
    /\ o.field.declared /\ o.col.present
    /\ ~o.qcols
    /\ ~(o.col.generated /\ ~o.qgen)

\* The pairs <<live type name, declared type>> of the model that name the
\* same type: equal up to case, or the declared type starts with an alias of
\* the live one.
SameTypePairs ==
    { <<"int8", "bigint">>, <<"bool", "boolean">>, <<"bool", "BOOL">>,
      <<"text", "text">>, <<"timestamptz", "timestamptz">>,
      <<"timestamptz", "timestamp with time zone">> }

Equivalent(o) == <<o.col.typeName, DataTypeOf(o.field)>> \in SameTypePairs

\* The positions of the statements of kind k among those handed to Exec.
Emitted(o, k) == {i \in 1..Len(o.executed) : o.executed[i].op = k}

\* C22: auto-increment transitions.  With types that are not equivalent, a
\* call that runs to its end for an auto-increment field on a column that is
\* not auto-increment creates the sequence and rewires the column default to
\* it; for a field that is not auto-increment on an auto-increment column it
\* drops the sequence and removes the default; ALTER COLUMN TYPE is emitted
\* only when neither side is auto-increment.  No call takes more than one of
\* the actions create, delete, update and modify.
C22_AutoIncrementTransitions ==
    Compared(op) =>
      /\ (op.err = NoErr /\ ~Equivalent(op)
           /\ op.field.autoIncrement /\ ~op.col.autoIncrement)
          => /\ op.executed[1].op = "CreateSequence"
             /\ op.executed[2] = StmtSetDefault("singers", op.field.name,
                                                 NextvalDefault)
             /\ Emitted(op, "DropSequence") = {}
             /\ Emitted(op, "AlterColumnType") = {}
      /\ (op.err = NoErr /\ ~Equivalent(op)
           /\ ~op.field.autoIncrement /\ op.col.autoIncrement)
          => /\ Emitted(op, "DropSequence") # {}
             /\ Emitted(op, "DropDefault") # {}
             /\ Emitted(op, "CreateSequence") = {}
             /\ Emitted(op, "AlterColumnType") = {}
      /\ Emitted(op, "AlterColumnType") # {}
          => /\ ~op.field.autoIncrement /\ ~op.col.autoIncrement
             /\ ~Equivalent(op)
      /\ Cardinality(Emitted(op, "CreateSequence")) <= 1
      /\ Cardinality(Emitted(op, "DropSequence")) <= 1
      /\ Cardinality(Emitted(op, "AlterColumnType")) <= 1
      /\ Emitted(op, "AlterColumnType") # {}
          => Emitted(op, "CreateSequence") \cup Emitted(op, "DropSequence") = {}
      /\ (Emitted(op, "CreateSequence") # {} /\ Emitted(op, "DropSequence") # {})
          => op.field.autoIncrement /\ op.col.autoIncrement

\* An int field turned auto-increment on a column that has no sequence.
C22_Witness ==
    /\ Compared(op)
    /\ op.err = NoErr
    /\ op.field.dataType = "int" /\ op.field.autoIncrement
    /\ op.col.typeName = "int8" /\ ~op.col.autoIncrement
    /\ Emitted(op, "CreateSequence") = {1}
    /\ op.executed[2] = StmtSetDefault("singers", "full_name", NextvalDefault)

\* The sequence of an auto-increment column is given up: the field is a plain
\* bool now.
C22_WitnessDelete ==
    /\ Compared(op)
    /\ op.err = NoErr
    /\ op.field.dataType = "bool" /\ ~op.field.autoIncrement
    /\ op.col.typeName = "int8" /\ op.col.autoIncrement
    /\ Emitted(op, "DropSequence") = {1}

-----------------------------------------------------------------------------
\* The integer type the sequence of a serial type needs.
RequiredBySerial ==
    [t \in {"smallserial", "serial", "bigserial"} |->
       IF t = "bigserial" THEN "bigint" ELSE "integer"]

\* C23: the sequence of an auto-increment column.  The serial types
\* smallserial and serial need an integer, bigserial a bigint.  When the field
\* and the live column are both auto-increment, the field's type is a serial
\* type and the type that serial type needs is not the type of the live column, a call that runs to
\* its end drops the sequence and creates it again with the type needed, and
\* does nothing else about the type; when the two types are equal no
\* statement about a sequence is emitted.
C23_SequenceReplaced ==
    /\ \A t \in DOMAIN RequiredBySerial :
         getSerialDatabaseType(t) = RequiredBySerial[t]
    /\ (/\ Compared(op)
         /\ op.field.autoIncrement /\ op.col.autoIncrement
         /\ DataTypeOf(op.field) \in DOMAIN RequiredBySerial) =>
         /\ (op.err = NoErr
              /\ RequiredBySerial[DataTypeOf(op.field)] # op.col.columnType)
             => /\ Emitted(op, "DropSequence") = {1}
                /\ Emitted(op, "CreateSequence") = {2}
                /\ op.executed[2].type = RequiredBySerial[DataTypeOf(op.field)]
                /\ Emitted(op, "AlterColumnType") = {}
         /\ RequiredBySerial[DataTypeOf(op.field)] = op.col.columnType
             => /\ Emitted(op, "DropSequence") = {}
                /\ Emitted(op, "CreateSequence") = {}
                /\ Emitted(op, "AlterColumnType") = {}

\* A serial field on an auto-increment bigint column: the sequence is
\* replaced by one of type integer.
C23_Witness ==
    /\ Compared(op)
    /\ op.err = NoErr
    /\ op.field.autoIncrement /\ op.col.autoIncrement
    /\ op.col.columnType = "bigint"
    /\ Emitted(op, "DropSequence") = {1}
    /\ Emitted(op, "CreateSequence") = {2}
    /\ op.executed[2].type = "integer"

\* A serial field on an auto-increment integer column: nothing to do.
C23_WitnessSameType ==
    /\ Compared(op)
    /\ op.err = NoErr
    /\ op.field.autoIncrement /\ op.col.autoIncrement
    /\ op.col.columnType = "integer"
    /\ op.col.nullable # op.field.notNull
    /\ op.executed = << >>

-----------------------------------------------------------------------------
\* The alias pairs that name one type, in both directions.
AliasPairs ==
    { <<"int8", "bigint">>, <<"bigint", "int8">>,
      <<"bool", "boolean">>, <<"boolean", "bool">>,
      <<"timestamptz", "timestamp with time zone">>,
      <<"timestamp with time zone", "timestamptz">> }

\* A statement of a type or sequence action was handed to Exec.
TypeActionTaken(o) ==
    \/ Emitted(o, "AlterColumnType") # {}
    \/ Emitted(o, "CreateSequence") # {}
    \/ Emitted(o, "DropSequence") # {}

\* C24: type equivalence.  Whether AlterColumn treats the live type and the
\* declared type as the same depends on the two type names only: they are
\* the same exactly if they are equal up to case or the declared type starts
\* with an alias of the live one.  For types that are the same no type or
\* sequence statement is emitted; for types that are not, a call that runs to
\* its end emits one, unless both sides are auto-increment.  The alias pairs
\* int8/bigint, bool/boolean and timestamptz/timestamp with time zone are the
\* same in both directions.
C24_TypeEquivalence ==
    /\ \A p \in AliasPairs : isSameType(p[1], p[2])
    /\ Compared(op) =>
         /\ isSameType(op.col.typeName, DataTypeOf(op.field)) <=> Equivalent(op)
         /\ Equivalent(op) => ~TypeActionTaken(op)
         /\ (/\ ~Equivalent(op)
              /\ op.err = NoErr
              /\ ~(op.field.autoIncrement /\ op.col.autoIncrement))
             => TypeActionTaken(op)

\* A field of type bigint on an int8 column that differs in nullability:
\* only the nullability is altered.
C24_Witness ==
    /\ Compared(op)
    /\ op.err = NoErr
    /\ op.col.typeName = "int8"
    /\ op.field.dataType = "bigint" /\ ~op.field.autoIncrement
    /\ op.field.notNull /\ op.col.nullable
    /\ op.executed # << >>
    /\ op.executed[1] = StmtSetNotNull("singers", "full_name")
    /\ ~TypeActionTaken(op)

\* Equal up to case: BOOL on a bool column.
C24_WitnessEqualFold ==
    /\ Compared(op)
    /\ op.err = NoErr
    /\ op.col.typeName = "bool"
    /\ op.field.dataType = "BOOL"
    /\ op.executed = << >>

\* Not the same: text on a bool column is altered.
C24_WitnessDrift ==
    /\ Compared(op)
    /\ op.err = NoErr
    /\ op.col.typeName = "bool"
    /\ op.field.dataType = "string"
    /\ Emitted(op, "AlterColumnType") = {1}

-----------------------------------------------------------------------------
\* Caller m is inside a call that has started a DDL batch.
BatchHeld(m) ==
    /\ call[m].pc \in {"seqkind", "migrate", "finish"}
    /\ call[m].deferred

\* The tables the statements stmts create.
Creates(stmts) ==
    {stmts[k].table : k \in {i \in 1..Len(stmts) : stmts[i].op = "CreateTable"}}

\* The batch of caller m holds the statements of m's call and no others, the
\* requests m's call sent carry its own statements only, and what the call
\* reports is what became of its own statements.
OwnBatchOnly(m) ==
    /\ BatchHeld(m) => /\ conn[m].active
                       /\ conn[m].batch = call[m].generated
    /\ \A i \in 1..Len(call[m].reqs) :
         Range(call[m].reqs[i]) \subseteq Range(call[m].generated)
    /\ (call[m].pc = "done" /\ call[m].err = NoErr) =>
         /\ call[m].dryRun => call[m].statements = call[m].generated
         /\ (~call[m].dryRun /\ ~cfg[m] /\ call[m].generated # << >>)
            => call[m].reqs = << call[m].generated >>
         /\ (~call[m].dryRun /\ cfg[m])
            => call[m].reqs = OneByOne(call[m].generated)
    /\ CountIssued(call[m], "RUN BATCH") <= 1

\* Two calls that both returned nil have not created the same table.
ConflictIsAnError ==
    \A m \in Callers : \A k \in Callers \ {m} :
       (/\ call[m].pc = "done" /\ call[k].pc = "done"
        /\ ~call[m].dryRun /\ ~call[k].dryRun
        /\ call[m].err = NoErr /\ call[k].err = NoErr)
       => Creates(call[m].generated) \cap Creates(call[k].generated) = {}

\* C25: concurrent migrations.  Two callers that work through migrators of
\* separate Migrator() calls on a pooled DB have independent DDL batches: the
\* batch of a call holds the statements of that call and no others, RUN BATCH
\* submits exactly those, a dry run returns exactly those, the statements of
\* one call are never dropped by the other's ABORT BATCH, no call runs its
\* batch twice, and of two calls that create the same table one returns an
\* error.
C25_IndependentBatches ==
    /\ \A m \in Callers : OwnBatchOnly(m)
    /\ ConflictIsAnError

\* The same for callers whose Migrator() call was given a connection by
\* sqlDB.Conn; the two connections are then different ones.
C25_IndependentBatchesWhenObtained ==
    (\A m \in Callers : bound[m].kind = "conn") =>
       /\ \A m \in Callers : \A k \in Callers \ {m} : bound[m] # bound[k]
       /\ \A m \in Callers : OwnBatchOnly(m)
       /\ ConflictIsAnError

-----------------------------------------------------------------------------
IsDropTable(s) == s.op = "DropTable"

\* The tables of the DROP TABLE statements of stmts, in order.
DroppedTables(stmts) ==
    [k \in 1..Len(SelectSeq(stmts, IsDropTable)) |->
       SelectSeq(stmts, IsDropTable)[k].table]

TablesOf(values) == [k \in 1..Len(values) |-> ModelDef(values[k]).table]

\* The statements of the call that were executed with success: all of them,
\* but for the one whose Exec failed.
Succeeded(o) ==
    IF o.fault.pos > 0 /\ o.err # NoErr
    THEN Take(o.executed, Len(o.executed) - 1)
    ELSE o.executed

\* The DROP TABLE statements were executed for the tables of order, first to
\* last, one each, up to the point where the call ended.
DropsInOrder(o, order) ==
    /\ Len(DroppedTables(o.executed)) <= Len(order)
    /\ DroppedTables(o.executed) = Take(order, Len(DroppedTables(o.executed)))
    /\ o.err = NoErr => DroppedTables(o.executed) = order

\* The position of the DROP TABLE before position j (0: none).
DropBefore(stmts, j) ==
    IF \E i \in 1..(j - 1) : IsDropTable(stmts[i])
    THEN CHOOSE i \in 1..(j - 1) :
           /\ IsDropTable(stmts[i])
           /\ \A h \in (i + 1)..(j - 1) : ~IsDropTable(stmts[h])
    ELSE 0

\* Before the DROP TABLE of t at position j, and after the DROP TABLE before
\* it, come the drops of the foreign keys that reference t, all of them, and
\* then the drops of the indexes of t, all of them.
DependenciesFirst(o, j) ==
    /\ \A i \in (DropBefore(o.executed, j) + 1)..(j - 1) :
         \/ /\ o.executed[i].op = "DropConstraint"
            /\ \E c \in o.pre.constraints :
                 /\ c.type = "FOREIGN KEY" /\ c.refTable = o.executed[j].table
                 /\ o.executed[i] = StmtDropConstraint(c.table, c.name)
            /\ \A h \in (DropBefore(o.executed, j) + 1)..(i - 1) :
                 o.executed[h].op = "DropConstraint"
         \/ /\ o.executed[i].op = "DropIndex"
            /\ o.executed[i].table = o.executed[j].table
    /\ \A c \in o.pre.constraints :
         (/\ c.type = "FOREIGN KEY" /\ c.refTable = o.executed[j].table
          /\ c.table \notin Range(DroppedTables(Take(o.executed, j - 1))))
         => \E i \in (DropBefore(o.executed, j) + 1)..(j - 1) :
              o.executed[i] = StmtDropConstraint(c.table, c.name)
    /\ \A x \in o.pre.indexes :
         x.table = o.executed[j].table
         => \E i \in (DropBefore(o.executed, j) + 1)..(j - 1) :
              o.executed[i] = StmtDropIndex(x.table, x.name)

\* After an error the tables whose DROP TABLE succeeded are gone, and the
\* tables that come after the one the error ended are as they were.
StopsAtFirstError(o, order) ==
    o.err # NoErr =>
      /\ \A k \in 1..Len(DroppedTables(Succeeded(o))) : order[k] \notin live.tables
      /\ \A k \in (Len(DroppedTables(Succeeded(o))) + 2)..Len(order) :
           OnlyTable(live, order[k]) = OnlyTable(o.pre, order[k])

\* C26 as stated: DropTable goes through the tables of the models it was
\* given last to first; before the DROP TABLE IF EXISTS of a table it drops
\* the foreign keys that reference the table and then the indexes of the
\* table; an error ends the call, with the tables processed so far dropped
\* and the tables not yet reached untouched.
C26_DropsInReverseOfModelList ==
    op.method = "DropTable" =>
      /\ DropsInOrder(op, Reverse(TablesOf(op.values)))
      /\ \A j \in 1..Len(op.executed) :
           IsDropTable(op.executed[j]) => DependenciesFirst(op, j)
      /\ StopsAtFirstError(op, Reverse(TablesOf(op.values)))

\* C26, amended: the same, with the tables taken last to first from the
\* list in dependency order (ReorderModels without added models), in which
\* a parent comes before its children whatever the order the caller gave.
C26_DropsInReverseOfDependencyOrder ==
    op.method = "DropTable" =>
      /\ DropsInOrder(op, Reverse(TablesOf(ReorderModelsNoAdd(op.values))))
      /\ \A j \in 1..Len(op.executed) :
           IsDropTable(op.executed[j]) => DependenciesFirst(op, j)
      /\ StopsAtFirstError(op, Reverse(TablesOf(ReorderModelsNoAdd(op.values))))

\* DropTable(&Singer{}, &Album{}, &Bs{}) on the migrated database fails on
\* the DROP TABLE of albums: bs is gone, singers is as it was.
C26_Witness ==
    /\ op.method = "DropTable"
    /\ op.values = <<"Singer", "Album", "Bs">>
    /\ op.pre = Migrated(<<"Singer", "Album", "Bs">>)
    /\ op.err # NoErr
    /\ DroppedTables(op.executed) = <<"bs", "albums">>
    /\ op.fault.pos > 0
    /\ "bs" \notin live.tables
    /\ "albums" \in live.tables
    /\ OnlyTable(live, "singers") = OnlyTable(op.pre, "singers")

\* DropTable(&Album{}, &Singer{}): the child is dropped first although it
\* was given first, after the drop of its index; the foreign key went with it.
C26_WitnessReordered ==
    /\ op.method = "DropTable"
    /\ op.values = <<"Album", "Singer">>
    /\ op.pre = Migrated(<<"Singer", "Album">>)
    /\ op.err = NoErr
    /\ DroppedTables(op.executed) = <<"albums", "singers">>
    /\ live.tables = {}

-----------------------------------------------------------------------------
C27_WitnessShared ==
    /\ op.method = "ColumnTypes" /\ ~op.qerr
    /\ op.table = "singers"
    /\ live = UniqueDb
    /\ \E c \in op.columns : c.name = "deleted_at" /\ c.unique
    /\ \E c \in op.columns : c.name = "id" /\ ~c.unique

-----------------------------------------------------------------------------
\* C28: MigrateColumn leaves primary keys alone.  A MigrateColumn call on a
\* primary key field hands no statement to Exec and returns nil, whatever
\* the live column looks like; every call that does hand a statement to
\* Exec, or that returns an error, is on a field that is not a primary key.
C28_PrimaryKeyNotMigrated ==
    op.method = "MigrateColumn" =>
      /\ op.field.primaryKey => (op.executed = << >> /\ op.err = NoErr)
      /\ (op.executed # << >> \/ op.err # NoErr) => ~op.field.primaryKey

\* A primary key field whose unique flag differs from the live column's.
C28_Witness ==
    /\ op.method = "MigrateColumn"
    /\ op.field.primaryKey
    /\ op.field.unique # op.col.unique
    /\ op.executed = << >> /\ op.err = NoErr

\* The same difference on a field that is not a primary key is migrated.
C28_WitnessPassedOn ==
    /\ op.method = "MigrateColumn"
    /\ ~op.field.primaryKey
    /\ op.field.unique # op.col.unique
    /\ op.executed # << >>

-----------------------------------------------------------------------------
\* C29: the generated primary key.  With AutoAddPrimaryKey, a CreateTable
\* call appends the field spanner_gorm_generated_id (serial primary key) to
\* the schema of each model it is given that has no primary field and no
\* migrated field with PRIMARY KEY in its data type, and changes no other
\* schema; whatever the calls made, a schema holds the field at most once;
\* without AutoAddPrimaryKey every schema stays as it was parsed; and
\* ColumnTypes reports no column spanner_gorm_generated_id.
GeneratedIds(sch) ==
    Cardinality({i \in 1..Len(sch.fields) : sch.fields[i].name = GeneratedIdColumn})

LacksPrimaryKey(sch) ==
    /\ sch.primaryFields = {}
    /\ \A i \in 1..Len(sch.fields) :
          \/ sch.fields[i].ignoreMigration
          \/ sch.fields[i].dataType \notin {"serial primary key", "bigint primary key"}

C29_GeneratedPrimaryKey ==
    /\ \A n \in SchemaModels : GeneratedIds(schemas[n]) <= 1
    /\ ~autoAddPrimaryKey => schemas = ParsedSchemas
    /\ (op.method = "CreateTable" /\ autoAddPrimaryKey) =>
         \A n \in SchemaModels :
            IF n \in Range(op.values) /\ LacksPrimaryKey(op.before[n])
            THEN schemas[n] = [op.before[n] EXCEPT
                                 !.fields = Append(@, GeneratedIdField)]
            ELSE schemas[n] = op.before[n]
    /\ (op.method = "ColumnTypes" /\ ~op.qerr) =>
         \A c \in op.columns : c.name # GeneratedIdColumn

\* The third CreateTable call on a model that was given the field by an
\* earlier call: the field is still there once.
C29_Witness ==
    /\ op.method = "CreateTable" /\ autoAddPrimaryKey
    /\ op.calls = MaxCreates
    /\ op.values = <<"Log">>
    /\ GeneratedIds(op.before["Log"]) = 1
    /\ GeneratedIds(schemas["Log"]) = 1

\* The field is added although a field excluded from migration has PRIMARY
\* KEY in its data type, and the table is created with it.
C29_WitnessIgnoredField ==
    /\ op.method = "CreateTable" /\ autoAddPrimaryKey
    /\ "Draft" \in Range(op.values)
    /\ GeneratedIds(op.before["Draft"]) = 0
    /\ GeneratedIds(schemas["Draft"]) = 1
    /\ <<"drafts", GeneratedIdColumn>> \in live.columns

\* PRIMARY KEY in the data type of a migrated field: nothing is added.
C29_WitnessPrimaryKeyInType ==
    /\ op.method = "CreateTable" /\ autoAddPrimaryKey
    /\ op.values = <<"Event">>
    /\ schemas["Event"] = ParsedSchemas["Event"]
    /\ op.err = NoErr

\* Without the flag the table without primary key is sent as it is.
C29_WitnessDisabled ==
    /\ op.method = "CreateTable" /\ ~autoAddPrimaryKey
    /\ op.values = <<"Log">>
    /\ op.err = ErrNoPrimaryKey

\* ColumnTypes on a table that has the column.
C29_WitnessColumnTypes ==
    /\ op.method = "ColumnTypes" /\ ~op.qerr
    /\ op.table = "logs"
    /\ <<"logs", GeneratedIdColumn>> \in live.columns
    /\ op.columns # {}

-----------------------------------------------------------------------------
\* C30: the error paths of AlterColumn.  A call whose value has no parsed
\* schema, whose field name the schema does not resolve, or whose column the
\* catalog does not hold returns an error, without a panic and without
\* handing a statement to Exec.
C30_ErrorWithoutDdl ==
    (/\ op.method = "AlterColumn"
     /\ \/ op.field.schema # "parsed"
        \/ ~op.field.declared
        \/ ~op.col.present)
    => /\ op.err \notin {NoErr, Panic}
       /\ op.executed = << >>

\* What does hold: no statement is handed to Exec in any of these cases;
\* and the call returns an error in them unless the value is a table name
\* or the catalog holds a generated column under the name that was given.
C30_ErrorWithoutDdlWhenLookedUp ==
    (/\ op.method = "AlterColumn"
     /\ \/ op.field.schema # "parsed"
        \/ ~op.field.declared
        \/ ~op.col.present)
    => /\ op.executed = << >>
       /\ (op.field.schema # "nil" /\ ~(op.col.present /\ op.col.generated))
            => op.err \notin {NoErr, Panic}

====
